---- MODULE Spec2Model ----
(***************************************************************************)
(* A model of the iov-crypto key engines of iov-core:                      *)
(*   - Secp256k1 (makeKeypair, createSignature, verifySignature), whose    *)
(*     implementation file is not part of src/ and is modelled from the    *)
(*     specification and from its test suite (src/unnamed/part_000);       *)
(*   - Slip0010 (derivePath, master, child, childImpl) of                  *)
(*     src/packages/iov-crypto/src/slip0010.ts;                            *)
(*   - Slip0010RawIndex of the same file and the Uint32 it extends, whose  *)
(*     file is not part of src/ (modelled from src/unnamed/part_002);      *)
(*   - Foo and secureFoo of src/packages/iov-stream/src/secureWrap.ts;     *)
(* and of the QueueingWebSocket of iov-tendermint-rpc                      *)
(* (src/packages/iov-tendermint-rpc/src/client.spec.ts).                   *)
(*                                                                         *)
(* Scaling.  TLC has 32-bit integers, so the 256-bit curve is replaced by  *)
(* the curve of the same equation, y^2 = x^3 + 7, over the prime field of  *)
(* FieldP = 211 elements.  Its group has prime order N = 199 < FieldP, as  *)
(* for secp256k1, and N is just below 2^(8*KeyLen), so byte strings of     *)
(* KeyLen bytes can be zero, in [1, N-1], equal to N or above N.  Private  *)
(* keys and digests are KeyLen = 1 byte wide where the source has 32, and  *)
(* an HMAC-SHA512 output is 2*KeyLen bytes where the source has 64.  All   *)
(* arithmetic on them is the source's: big-endian byte strings, unbounded  *)
(* addition, reduction mod N.                                              *)
(***************************************************************************)
EXTENDS Integers, Sequences, FiniteSets, TLC

VARIABLES
  \* ---- Secp256k1: the arguments and the outcome of the last call of each operation
  kpInput,      \* bytes handed to the last makeKeypair
  kpResult,     \* its outcome: [error, privkey, pubkey]
  sigInput,     \* [message, privkey] of the last createSignature
  signature,    \* the signature it returned (<<>>: none yet)
  signature2,   \* the signature a second call with the same arguments returned
  drbgUsed,     \* nonce candidates the last createSignature drew from its generator
  vfyInput,     \* [kind, signature, message, pubkey] of the last verifySignature
  vfyResult,    \* its outcome: [error, ok]
  \* ---- Slip0010: one record per call of derivePath (its arguments, its locals, its
  \* position and its outcome)
  calls,
  \* ---- Uint32 / Slip0010RawIndex: the last constructor call, its outcome, and what the
  \* methods called on the constructed object returned
  uint,
  \* ---- secureWrap: a Foo, its secureFoo wrapper, the last write to a shared property
  \* and the last read or isSecret call with what it gave
  wrap,
  \* ---- QueueingWebSocket: the fields of one object, the sockets its connect() has
  \* created, what was handed to them, what its handlers were called with and the
  \* outcome of the last call of a public method
  qws

secpVars == <<kpInput, kpResult, sigInput, signature, signature2, drbgUsed, vfyInput, vfyResult>>

vars == <<secpVars, calls, uint, wrap, qws>>

\* what the operations of one component leave alone
notSecp == <<calls, uint, wrap, qws>>
notSlip == <<secpVars, uint, wrap, qws>>
notUint == <<secpVars, calls, wrap, qws>>
notWrap == <<secpVars, calls, uint, qws>>
notQws == <<secpVars, calls, uint, wrap>>

----------------------------------------------------------------------------
(* Bytes and big-endian numbers (bn.js: new BN(bytes), toArrayLike)        *)

Byte == 0..255

\* Width of a private key, of a chain code and of each half of an HMAC output, in bytes.
KeyLen == 1

RECURSIVE BytesToInt(_)
\* new BN(bytes): the big-endian unsigned value of a byte string
BytesToInt(bytes) ==
  IF Len(bytes) = 0 THEN 0
  ELSE 256 * BytesToInt(SubSeq(bytes, 1, Len(bytes) - 1)) + bytes[Len(bytes)]

RECURSIVE IntToBytes(_, _)
\* bn.toArrayLike(Uint8Array, "be", len): len bytes, most significant first
IntToBytes(v, len) ==
  IF len = 0 THEN <<>>
  ELSE Append(IntToBytes(v \div 256, len - 1), v % 256)

----------------------------------------------------------------------------
(* The curve: y^2 = x^3 + CurveB over F_FieldP, generator G of order N     *)

FieldP == 211
CurveB == 7
\* the group order n
N == 199
Gx == 3
Gy == 33

\* a^-1 mod m, for a not divisible by the prime m
ModInv(a, m) == CHOOSE x \in 1..(m - 1) : (a * x) % m = 1

InvP == [a \in 1..(FieldP - 1) |-> ModInv(a, FieldP)]
InvN == [a \in 1..(N - 1) |-> ModInv(a, N)]

Infinity == [inf |-> TRUE, x |-> 0, y |-> 0]
G == [inf |-> FALSE, x |-> Gx, y |-> Gy]

OnCurve(P) == P.inf \/ (P.y * P.y) % FieldP = (P.x * P.x * P.x + CurveB) % FieldP

\* the group law
PointAdd(P, Q) ==
  IF P.inf THEN Q
  ELSE IF Q.inf THEN P
  ELSE IF P.x = Q.x /\ (P.y + Q.y) % FieldP = 0 THEN Infinity
  ELSE LET lambda == IF P.x = Q.x
                     THEN (3 * P.x * P.x * InvP[(2 * P.y) % FieldP]) % FieldP
                     ELSE (((Q.y - P.y) % FieldP) * InvP[(Q.x - P.x) % FieldP]) % FieldP
           x3 == (lambda * lambda - P.x - Q.x) % FieldP
           y3 == (lambda * (P.x - x3) - P.y) % FieldP
       IN [inf |-> FALSE, x |-> x3, y |-> y3]

RECURSIVE ScalarMul(_, _)
\* k * P by double-and-add
ScalarMul(k, P) ==
  IF k = 0 THEN Infinity
  ELSE LET half == ScalarMul(k \div 2, P)
           dbl == PointAdd(half, half)
       IN IF k % 2 = 1 THEN PointAdd(dbl, P) ELSE dbl

\* k * G for the scalars 0..N-1
GMul == [k \in 0..(N - 1) |-> ScalarMul(k, G)]

\* Uncompressed public key encoding 0x04 || X || Y, each coordinate KeyLen bytes
EncodePoint(P) == <<4>> \o IntToBytes(P.x, KeyLen) \o IntToBytes(P.y, KeyLen)

DecodePoint(bytes) ==
  IF Len(bytes) = 1 + 2 * KeyLen /\ bytes[1] = 4
  THEN [inf |-> FALSE,
        x |-> BytesToInt(SubSeq(bytes, 2, 1 + KeyLen)),
        y |-> BytesToInt(SubSeq(bytes, 2 + KeyLen, 1 + 2 * KeyLen))]
  ELSE Infinity

----------------------------------------------------------------------------
(* Secp256k1 key and signature engine (spec 4.1; tests in part_000)        *)

InvalidPrivateKey == "not a valid secp256k1 private key"

NoKeypair == [error |-> "none", privkey |-> <<>>, pubkey |-> <<>>]

\* makeKeypair(privkey): the length must be exactly KeyLen and the big-endian value
\* v must satisfy 1 <= v <= n-1; the public key is v * G.
makeKeypairNoUpperBound(privkey) ==
  IF Len(privkey) # KeyLen \/ BytesToInt(privkey) = 0
  THEN [error |-> InvalidPrivateKey, privkey |-> <<>>, pubkey |-> <<>>]
  ELSE [error |-> "", privkey |-> privkey,
        pubkey |-> EncodePoint(ScalarMul(BytesToInt(privkey), G))]

makeKeypair(privkey) ==
  IF Len(privkey) # KeyLen
  THEN [error |-> InvalidPrivateKey, privkey |-> <<>>, pubkey |-> <<>>]
  ELSE LET v == BytesToInt(privkey)
       IN IF v = 0 \/ v >= N
          THEN [error |-> InvalidPrivateKey, privkey |-> <<>>, pubkey |-> <<>>]
          ELSE [error |-> "", privkey |-> privkey, pubkey |-> EncodePoint(GMul[v])]

RECURSIVE DigestFold(_, _)
DigestFold(message, h) ==
  IF Len(message) = 0 THEN h
  ELSE DigestFold(Tail(message), (h * 31 + Head(message) + 1) % (256 ^ KeyLen))

\* The message digest: a fixed-width function of the message bytes (stands for SHA-256,
\* whose 32 bytes are as wide as a private key).
Sha256(message) == IntToBytes(DigestFold(message, 106), KeyLen)

\* The deterministic nonce of RFC 6979: a function of the private key, the digest and
\* the number of candidates already rejected, in [1, n-1].
Rfc6979Nonce(d, z, iter) == ((d * 89 + z * 57 + d * z * 3 + iter * 101) % (N - 1)) + 1

\* the half order n/2 (n >> 1)
HalfN == N \div 2

RECURSIVE SignDigestRawS(_, _, _)
\* signing without the canonical option: s is returned as computed
SignDigestRawS(z, d, iter) ==
  LET k == Rfc6979Nonce(d, z, iter)
      r == GMul[k].x % N
      s == (InvN[k] * ((z + r * d) % N)) % N
  IN IF r = 0 \/ s = 0 THEN SignDigestRawS(z, d, iter + 1)
     ELSE [r |-> r, s |-> s, used |-> iter + 1]

RECURSIVE SignDigest(_, _, _)
\* ECDSA signing with the canonical (low-S) option: r = x(kG) mod n,
\* s = k^-1 (z + r d) mod n, a candidate with r = 0 or s = 0 is rejected,
\* and s > n/2 is replaced by n - s.
SignDigest(z, d, iter) ==
  LET k == Rfc6979Nonce(d, z, iter)
      r == GMul[k].x % N
      s == (InvN[k] * ((z + r * d) % N)) % N
  IN IF r = 0 \/ s = 0 THEN SignDigest(z, d, iter + 1)
     ELSE [r |-> r, s |-> IF s > HalfN THEN N - s ELSE s, used |-> iter + 1]

RECURSIVE MinimalBytes(_)
\* the shortest big-endian byte string of v >= 0 (one zero byte for 0)
MinimalBytes(v) == IF v < 256 THEN <<v>> ELSE Append(MinimalBytes(v \div 256), v % 256)

\* DER INTEGER content of an unsigned value: a zero byte is put in front when the top
\* bit of the first byte is set
DerInt(v) == LET b == MinimalBytes(v) IN IF b[1] >= 128 THEN <<0>> \o b ELSE b

\* DER: SEQUENCE { INTEGER r, INTEGER s }
toDER(sig) ==
  LET rb == DerInt(sig.r)
      sb == DerInt(sig.s)
  IN <<48, 4 + Len(rb) + Len(sb), 2, Len(rb)>> \o rb \o <<2, Len(sb)>> \o sb

StripSign(b) == IF Len(b) >= 2 /\ b[1] = 0 /\ b[2] >= 128 THEN Tail(b) ELSE b

\* Parsing a DER signature: [ok, r, s]; ok is FALSE when the structure is not that of
\* SEQUENCE { INTEGER, INTEGER } filling the whole input.
fromDER(data) ==
  LET bad == [ok |-> FALSE, r |-> 0, s |-> 0]
  IN IF Len(data) < 4 \/ data[1] # 48 \/ data[2] + 2 # Len(data) \/ data[3] # 2 THEN bad
     ELSE LET rlen == data[4]
          IN IF rlen = 0 \/ 4 + rlen + 2 > Len(data) \/ data[5 + rlen] # 2 THEN bad
             ELSE LET slen == data[6 + rlen]
                  IN IF slen = 0 \/ 6 + rlen + slen # Len(data) THEN bad
                     ELSE [ok |-> TRUE,
                           r |-> BytesToInt(StripSign(SubSeq(data, 5, 4 + rlen))),
                           s |-> BytesToInt(StripSign(SubSeq(data, 7 + rlen, 6 + rlen + slen)))]

\* createSignature(message, privkey): deterministic ECDSA over the digest, low-S, DER
\* the leading bytes of the message are signed as they are, without the digest
createSignatureNoDigest(message, privkey) ==
  toDER(SignDigest(BytesToInt(SubSeq(message, 1, IF Len(message) < KeyLen THEN Len(message) ELSE KeyLen)),
                   BytesToInt(privkey), 0))

createSignature(message, privkey) ==
  toDER(SignDigest(BytesToInt(Sha256(message)), BytesToInt(privkey), 0))

\* The ECDSA verification equation on parsed values: 1 <= r, s <= n-1 and
\* x(u1 G + u2 Q) mod n = r with u1 = z s^-1, u2 = r s^-1.
VerifyDigest(r, s, z, Q) ==
  /\ r \in 1..(N - 1)
  /\ s \in 1..(N - 1)
  /\ LET w == InvN[s]
         u1 == (z * w) % N
         u2 == (r * w) % N
         P == PointAdd(GMul[u1], ScalarMul(u2, Q))
     IN ~P.inf /\ P.x % N = r

\* verification that accepts canonical (low-S) signatures only
verifySignatureStrictLowS(sig, message, pubkey) ==
  LET parsed == fromDER(sig)
  IN [error |-> "",
      ok |-> /\ parsed.ok
             /\ parsed.s <= HalfN
             /\ VerifyDigest(parsed.r, parsed.s, BytesToInt(Sha256(message)), DecodePoint(pubkey))]

\* verification that lets the parser's failure escape to the caller
verifySignatureThrowing(sig, message, pubkey) ==
  LET parsed == fromDER(sig)
  IN IF ~parsed.ok THEN [error |-> "Signature without r or s", ok |-> FALSE]
     ELSE [error |-> "",
           ok |-> VerifyDigest(parsed.r, parsed.s, BytesToInt(Sha256(message)), DecodePoint(pubkey))]

\* verifySignature(signature, message, pubkey): a signature that does not parse or does
\* not check out is the result false, not an error.
verifySignature(sig, message, pubkey) ==
  LET parsed == fromDER(sig)
  IN [error |-> "",
      ok |-> /\ parsed.ok
             /\ VerifyDigest(parsed.r, parsed.s, BytesToInt(Sha256(message)), DecodePoint(pubkey))]

----------------------------------------------------------------------------
(* The Secp256k1 engine as a state machine: each action is one call, and   *)
(* the state keeps the arguments and the outcome of the last call.         *)

\* private key values offered to makeKeypair: both ends of [1, n-1], values inside
\* (14 and 16 are keys for which a first nonce candidate gives r = 0 or s = 0),
\* zero, n and values above n
KeyValues == {0, 1, 14, 16, N - 2, N - 1, N, N + 1, 256 ^ KeyLen - 1}

\* byte strings offered to makeKeypair: the right length, one byte short, one byte long
PrivkeyInputs ==
  {IntToBytes(v, KeyLen) : v \in KeyValues}
    \cup {IntToBytes(14, KeyLen - 1), IntToBytes(14, KeyLen + 1), IntToBytes(0, KeyLen + 1)}

Messages == {<<17, 34>>, <<16, 34>>, <<>>, <<92, 134, 143>>}

NoSigInput == [message |-> <<>>, privkey |-> <<>>]
NoVfyInput == [kind |-> "none", signature |-> <<>>, message |-> <<>>, pubkey |-> <<>>]
NoVfyResult == [error |-> "none", ok |-> FALSE]

\* await Secp256k1.makeKeypair(privkey)
MakeKeypair(privkey) ==
  /\ kpInput' = privkey
  /\ kpResult' = makeKeypair(privkey)
  /\ sigInput' = NoSigInput
  /\ signature' = <<>>
  /\ signature2' = <<>>
  /\ drbgUsed' = 0
  /\ vfyInput' = NoVfyInput
  /\ vfyResult' = NoVfyResult
  /\ UNCHANGED notSecp

\* const signature = await Secp256k1.createSignature(message, keypair.privkey)
CreateSignature(message) ==
  /\ kpResult.error = ""
  /\ sigInput' = [message |-> message, privkey |-> kpResult.privkey]
  /\ signature' = createSignature(message, kpResult.privkey)
  /\ drbgUsed' = SignDigest(BytesToInt(Sha256(message)), BytesToInt(kpResult.privkey), 0).used
  /\ signature2' = <<>>
  /\ vfyInput' = NoVfyInput
  /\ vfyResult' = NoVfyResult
  /\ UNCHANGED <<kpInput, kpResult, notSecp>>

\* a second call with the arguments of the first draws its nonce from a generator that
\* the first call left used
CreateSignatureAgainStaleDrbg ==
  /\ signature # <<>>
  /\ signature2' = toDER(SignDigest(BytesToInt(Sha256(sigInput.message)),
                                    BytesToInt(sigInput.privkey), drbgUsed))
  /\ UNCHANGED <<kpInput, kpResult, sigInput, signature, drbgUsed, vfyInput, vfyResult, notSecp>>

\* const signature2 = await Secp256k1.createSignature(message, keypair.privkey):
\* the nonce generator is instantiated afresh from (privkey, digest) by every call
CreateSignatureAgain ==
  /\ signature # <<>>
  /\ signature2' = createSignature(sigInput.message, sigInput.privkey)
  /\ UNCHANGED <<kpInput, kpResult, sigInput, signature, drbgUsed, vfyInput, vfyResult, notSecp>>

\* One call of verifySignature; kind names what the caller changed.  The state keeps
\* one verification per created signature (the outcome of a call depends on its
\* arguments alone, so a later verification is the same step taken from the state
\* createSignature left).
Verify(kind, sig, message, pubkey) ==
  /\ signature # <<>>
  /\ vfyInput.kind = "none"
  /\ vfyInput' = [kind |-> kind, signature |-> sig, message |-> message, pubkey |-> pubkey]
  /\ vfyResult' = verifySignature(sig, message, pubkey)
  /\ UNCHANGED <<kpInput, kpResult, sigInput, signature, signature2, drbgUsed, notSecp>>

\* verifySignature(signature, message, keypair.pubkey)
VerifyValid == Verify("valid", signature, sigInput.message, kpResult.pubkey)

\* verifySignature(signature, corruptedMessage, keypair.pubkey)
VerifyCorruptedMessage(message) ==
  /\ message # sigInput.message
  /\ Verify("message", signature, message, kpResult.pubkey)

\* x ^ (1 << j) on a byte
FlipBit(x, j) == IF (x \div (2 ^ j)) % 2 = 1 THEN x - 2 ^ j ELSE x + 2 ^ j

\* verifySignature(corruptedSignature, message, keypair.pubkey): bit j of byte i flipped
VerifyCorruptedSignature(i, j) ==
  /\ i \in 1..Len(signature)
  /\ Verify("signature", [signature EXCEPT ![i] = FlipBit(signature[i], j)],
            sigInput.message, kpResult.pubkey)

\* verifySignature(signature, message, wrongPubkey), wrongPubkey of another valid key
VerifyWrongPubkey(otherPrivkey) ==
  /\ otherPrivkey # kpResult.privkey
  /\ makeKeypair(otherPrivkey).error = ""
  /\ Verify("pubkey", signature, sigInput.message, makeKeypair(otherPrivkey).pubkey)

\* the same (R, S) as an independent signer may encode it: S replaced by n - S
Unnormalized(sig) == LET p == fromDER(sig) IN toDER([r |-> p.r, s |-> N - p.s])

\* verifySignature(row.signature, row.message, pubkey) for a reference signature that
\* is not in low-S form
VerifyUnnormalized == Verify("highS", Unnormalized(signature), sigInput.message, kpResult.pubkey)

SecpNext ==
  \/ \E privkey \in PrivkeyInputs : MakeKeypair(privkey)
  \/ \E message \in Messages : CreateSignature(message)
  \/ CreateSignatureAgain
  \/ VerifyValid
  \/ VerifyUnnormalized
  \/ \E message \in Messages : VerifyCorruptedMessage(message)
  \/ \E i \in 1..(6 + 4 * KeyLen), j \in 0..7 : VerifyCorruptedSignature(i, j)
  \/ \E v \in 1..(N - 1) : VerifyWrongPubkey(IntToBytes(v, KeyLen))


----------------------------------------------------------------------------
(* Claims about the Secp256k1 engine                                       *)

\* (r, s) is an ECDSA signature of digest z under private key d: some nonce k has
\* r = x(kG) mod n and k s = z + r d (mod n).  This is the signer's equation, on
\* scalars; verifySignature checks the verifier's equation, on curve points.
Genuine(r, s, z, d) ==
  /\ r \in 1..(N - 1)
  /\ s \in 1..(N - 1)
  /\ \E k \in 1..(N - 1) : GMul[k].x % N = r /\ (k * s) % N = (z + r * d) % N

\* the private key of an encoded public key
PrivkeyOf(pubkey) == CHOOSE d \in 1..(N - 1) : EncodePoint(GMul[d]) = pubkey

\* C1: makeKeypair succeeds if and only if its input has exactly the key length and a
\* big-endian value in [1, n-1]; every other input fails with the "not a valid
\* secp256k1 private key" error.
C1_MakeKeypairValidity ==
  kpResult.error # "none" =>
    /\ kpResult.error = "" <=> kpInput \in {IntToBytes(v, KeyLen) : v \in 1..(N - 1)}
    /\ kpResult.error # "" => kpResult.error = "not a valid secp256k1 private key"
    /\ kpResult.error = "" => kpResult.privkey = kpInput /\ OnCurve(DecodePoint(kpResult.pubkey))
                               /\ ~DecodePoint(kpResult.pubkey).inf

\* the largest valid key, n-1, was accepted
C1_Witness == kpInput = IntToBytes(N - 1, KeyLen) /\ kpResult.error = ""

\* C2: verifySignature(createSignature(message, privkey), message, pubkey) is true for
\* every message and valid private key, pubkey being the key pair's public key.
C2_RoundTrip ==
  vfyInput.kind = "valid" =>
    /\ vfyInput.signature = signature
    /\ vfyInput.message = sigInput.message
    /\ vfyInput.pubkey = makeKeypair(sigInput.privkey).pubkey
    /\ vfyResult = [error |-> "", ok |-> TRUE]

C2_Witness == vfyInput.kind = "valid" /\ vfyResult.ok /\ Len(sigInput.message) > 0

C4_LowS ==
  signature # <<>> =>
    LET p == fromDER(signature)
    IN /\ p.ok
       /\ p.s <= HalfN
       /\ signature = toDER(p)
       /\ Genuine(p.r, p.s, BytesToInt(Sha256(sigInput.message)), BytesToInt(sigInput.privkey))

\* a signature whose S as computed from the nonce was above n/2 and was replaced
C4_Witness ==
  /\ signature # <<>>
  /\ fromDER(signature).s <= HalfN
  /\ LET z == BytesToInt(Sha256(sigInput.message))
         d == BytesToInt(sigInput.privkey)
     IN SignDigestRawS(z, d, 0).s > HalfN

\* C5: verifySignature is true for the encoding of a valid (R, S) and for the encoding
\* of (R, n-S), also when that S is above n/2.
C5_AcceptsHighS ==
  vfyInput.kind \in {"valid", "highS"} =>
    LET p == fromDER(signature)
        q == fromDER(vfyInput.signature)
    IN /\ q.ok /\ q.r = p.r
       /\ q.s = IF vfyInput.kind = "highS" THEN N - p.s ELSE p.s
       /\ vfyResult.error = ""
       /\ vfyResult.ok

C5_Witness ==
  /\ vfyInput.kind = "highS"
  /\ fromDER(vfyInput.signature).s > HalfN
  /\ vfyResult.ok

\* the call changed the message, the signature bytes or the public key
Altered ==
  /\ vfyInput.kind # "none"
  /\ \/ vfyInput.message # sigInput.message
     \/ vfyInput.signature # signature
     \/ vfyInput.pubkey # kpResult.pubkey

\* C6 as stated: with the message, the signature bytes or the key changed,
\* verifySignature returns false and raises nothing.
C6_AlteredIsFalse == Altered => vfyResult = [error |-> "", ok |-> FALSE]

\* C6 as amended: with the message, the signature bytes or the key changed,
\* verifySignature raises nothing, and it returns false unless the changed signature
\* parses and is itself an ECDSA signature of the (changed) message under the (other)
\* key; it returns true exactly then.
C6_AlteredNeverThrows ==
  Altered =>
    LET q == fromDER(vfyInput.signature)
    IN /\ vfyResult.error = ""
       /\ vfyResult.ok <=> /\ q.ok
                           /\ Genuine(q.r, q.s, BytesToInt(Sha256(vfyInput.message)),
                                      PrivkeyOf(vfyInput.pubkey))

\* a corrupted signature that no longer parses was reported as false
C6_Witness ==
  /\ vfyInput.kind = "signature"
  /\ ~fromDER(vfyInput.signature).ok
  /\ vfyResult = [error |-> "", ok |-> FALSE]

----------------------------------------------------------------------------
(* Uint32 and Slip0010RawIndex (slip0010.ts:18-30).  A number is kept as   *)
(* [hi, lo], standing for hi * 2^16 + lo with 0 <= lo < 2^16, so that the  *)
(* whole uint32 range and the values next to it are exact in TLC.          *)

Num(hi, lo) == [hi |-> hi, lo |-> lo]

\* new Uint32(input): input must be in [0, 2^32 - 1]
Uint32(input) ==
  IF input.hi < 0 \/ input.hi >= 2 ^ 16
  THEN [error |-> "Input not in uint32 range", data |-> Num(0, 0)]
  ELSE [error |-> "", data |-> input]

\* hardened that wraps the sum around 2^32
hardenedWrapping(hardenedIndex) ==
  Uint32(Num((hardenedIndex.hi + 2 ^ 15) % 2 ^ 16, hardenedIndex.lo))

\* Slip0010RawIndex.hardened(hardenedIndex): hardenedIndex + 2 ** 31
hardened(hardenedIndex) == Uint32(Num(hardenedIndex.hi + 2 ^ 15, hardenedIndex.lo))

\* Slip0010RawIndex.normal(normalIndex)
normal(normalIndex) == Uint32(normalIndex)

\* this.data > 2 ** 31
isHardenedStrict(rawIndex) == rawIndex.hi > 2 ^ 15 \/ (rawIndex.hi = 2 ^ 15 /\ rawIndex.lo > 0)

\* isHardened(): this.data >= 2 ** 31
isHardened(rawIndex) == rawIndex.hi >= 2 ^ 15

\* the four bytes, least significant first
toBytesLittleEndian(rawIndex) ==
  <<rawIndex.lo % 256, rawIndex.lo \div 256, rawIndex.hi % 256, rawIndex.hi \div 256>>

\* Uint32.toBytesBigEndian(): four bytes, most significant first
toBytesBigEndian(rawIndex) ==
  <<rawIndex.hi \div 256, rawIndex.hi % 256, rawIndex.lo \div 256, rawIndex.lo % 256>>

\* Uint32.asNumber(): the number the object holds
asNumber(data) == data

\* number of bytes of a Uint32
Uint32ByteLen == 4

\* Uint32.fromBigEndianBytes(bytes)
fromBigEndianBytes(bytes) ==
  IF Len(bytes) # Uint32ByteLen
  THEN [error |-> "Invalid input length", data |-> Num(0, 0)]
  ELSE IF \E k \in 1..Len(bytes) : bytes[k] > 255 \/ bytes[k] < 0
  THEN [error |-> "Invalid value in byte", data |-> Num(0, 0)]
  ELSE Uint32(Num(bytes[1] * 256 + bytes[2], bytes[3] * 256 + bytes[4]))

NoCtor == [error |-> "none", data |-> Num(0, 0)]

\* no constructor called yet
NoUint ==
  [op |-> "none", input |-> Num(0, 0), bytesIn |-> <<>>, error |-> "none", data |-> Num(0, 0),
   done |-> {}, isHardened |-> FALSE, bytes |-> <<>>, number |-> Num(0, 0), back |-> NoCtor]

\* a constructor call with its outcome r; nothing has been called on the object yet
\* (one object is constructed and then used)
Constructed(op, input, bytesIn, r) ==
  [NoUint EXCEPT !.op = op, !.input = input, !.bytesIn = bytesIn,
                 !.error = r.error, !.data = r.data]

\* new Uint32(input)
NewUint32(input) ==
  /\ uint.op = "none"
  /\ uint' = Constructed("Uint32", input, <<>>, Uint32(input))
  /\ UNCHANGED notUint

\* Slip0010RawIndex.normal(input)
Normal(input) ==
  /\ uint.op = "none"
  /\ uint' = Constructed("normal", input, <<>>, normal(input))
  /\ UNCHANGED notUint

\* Slip0010RawIndex.hardened(input)
Hardened(input) ==
  /\ uint.op = "none"
  /\ uint' = Constructed("hardened", input, <<>>, hardened(input))
  /\ UNCHANGED notUint

\* Uint32.fromBigEndianBytes(bytes)
FromBigEndianBytes(bytes) ==
  /\ uint.op = "none"
  /\ uint' = Constructed("fromBigEndianBytes", Num(0, 0), bytes, fromBigEndianBytes(bytes))
  /\ UNCHANGED notUint

\* rawIndex.isHardened() on a constructed Slip0010RawIndex
IsHardened ==
  /\ uint.op \in {"normal", "hardened"}
  /\ uint.error = ""
  /\ "isHardened" \notin uint.done
  /\ uint' = [uint EXCEPT !.isHardened = isHardened(uint.data), !.done = @ \cup {"isHardened"}]
  /\ UNCHANGED notUint

\* x.toBytesBigEndian() on a constructed object
ToBytesBigEndian ==
  /\ uint.op # "none"
  /\ uint.error = ""
  /\ "toBytesBigEndian" \notin uint.done
  /\ uint' = [uint EXCEPT !.bytes = toBytesBigEndian(uint.data),
                          !.done = @ \cup {"toBytesBigEndian"}]
  /\ UNCHANGED notUint

\* x.asNumber() on a constructed object
AsNumber ==
  /\ uint.op # "none"
  /\ uint.error = ""
  /\ "asNumber" \notin uint.done
  /\ uint' = [uint EXCEPT !.number = asNumber(uint.data), !.done = @ \cup {"asNumber"}]
  /\ UNCHANGED notUint

\* Uint32.fromBigEndianBytes(x.toBytesBigEndian())
BackFromBytes ==
  /\ "toBytesBigEndian" \in uint.done
  /\ "back" \notin uint.done
  /\ uint' = [uint EXCEPT !.back = fromBigEndianBytes(uint.bytes), !.done = @ \cup {"back"}]
  /\ UNCHANGED notUint

\* numbers handed to the constructors: hi * 2^16 + lo, from below -2^31 to above 2^32
HiValues ==
  {0 - 2 ^ 15 - 1, 0 - 2 ^ 15, 0 - 1, 0, 1, 2 ^ 15 - 1, 2 ^ 15, 2 ^ 16 - 1, 2 ^ 16, 2 ^ 16 + 2 ^ 15}
LoValues == {0, 1, 5, 2 ^ 16 - 1}
NumInputs == {Num(hi, lo) : hi \in HiValues, lo \in LoValues}

\* elements and byte arrays handed to fromBigEndianBytes
ByteValues == {0 - 1, 0, 42, 255, 256}
ByteArrays == UNION {[1..len -> ByteValues] : len \in 0..(Uint32ByteLen + 1)}

UintNext ==
  \/ \E input \in NumInputs : NewUint32(input)
  \/ \E input \in NumInputs : Normal(input)
  \/ \E input \in NumInputs : Hardened(input)
  \/ \E bytes \in ByteArrays : FromBigEndianBytes(bytes)
  \/ IsHardened
  \/ ToBytesBigEndian
  \/ AsNumber
  \/ BackFromBytes

----------------------------------------------------------------------------
(* Slip0010 (slip0010.ts:34-148)                                           *)

Secp256k1 == "Bitcoin seed"
Ed25519 == "ed25519 seed"
Slip0010Curve == {Secp256k1, Ed25519}

\* Encoding.asAscii(curve)
asAscii(str) ==
  IF str = "Bitcoin seed" THEN <<66, 105, 116, 99, 111, 105, 110, 32, 115, 101, 101, 100>>
  ELSE <<101, 100, 50, 53, 53, 49, 57, 32, 115, 101, 101, 100>>

\* one absorption step of the keyed digest
HmacMix(h, b) ==
  (((((h + b + 1) * 31981) % (256 ^ (2 * KeyLen))) * 257) \div 256) % (256 ^ (2 * KeyLen))

RECURSIVE HmacAbsorb(_, _)
\* the bytes are absorbed one after the other; each step works on the value of the
\* step before it (x) and on the bytes that remain (rest)
HmacAbsorb(h, bytes) ==
  IF Len(bytes) = 0 THEN h
  ELSE CHOOSE r \in {HmacAbsorb(x, rest) : x \in {HmacMix(h, Head(bytes))},
                                          rest \in {Tail(bytes)}} : TRUE

\* new Hmac(Sha512, key).update(data).digest(): a fixed function of (key, data) with
\* 2 * KeyLen bytes of output, in which key and data play different parts
Hmac(key, data) ==
  IntToBytes(HmacMix(HmacAbsorb(HmacMix(HmacAbsorb(Len(key), key), 256), data), Len(data)),
             2 * KeyLen)

\* i.slice(0, 32)
Left(i) == SubSeq(i, 1, KeyLen)
\* i.slice(32, 64)
Right(i) == SubSeq(i, KeyLen + 1, 2 * KeyLen)

\* privkey.every(byte => byte === 0)
isZero(privkey) == \A k \in 1..Len(privkey) : privkey[k] = 0

\* n(curve) throws "curve not supported" for every curve but Secp256k1
nThrows(curve) == curve # Secp256k1

\* new BN(privkey).gte(this.n(curve)), for a curve that has an n
isGteN(curve, privkey) == BytesToInt(privkey) >= N

NoResult == [chainCode |-> <<>>, privkey |-> <<>>]

\* the calls of derivePath that the model follows
Calls == {"c1", "c2"}

IdleCall ==
  [pc |-> "idle", curve |-> Secp256k1, seed |-> <<>>, path |-> <<>>,
   mseed |-> <<>>, result |-> NoResult, pos |-> 0, i |-> <<>>, childCalls |-> 0,
   error |-> "", returned |-> NoResult]

\* Slip0010.derivePath(curve, seed, path) is called: line 41 is about to run
DerivePath(c, cv, sd, pth) ==
  /\ calls[c].pc = "idle"
  /\ calls' = [calls EXCEPT ![c] = [@ EXCEPT !.pc = "master", !.curve = cv, !.seed = sd,
                                             !.path = pth, !.mseed = sd]]
  /\ UNCHANGED notSlip

\* master without the retry: the first I is taken whatever its left half is
MasterNoRetry(c) ==
  LET f == calls[c]
      i == Hmac(asAscii(f.curve), f.mseed)
  IN /\ f.pc = "master"
     /\ calls' = [calls EXCEPT ![c] =
                    [@ EXCEPT !.result = [chainCode |-> Right(i), privkey |-> Left(i)],
                              !.pos = 0, !.pc = "loop"]]
     /\ UNCHANGED notSlip

\* master that mixes a value of its own activation (a counter, a clock) into the data
MasterPerCallSalt(c) ==
  LET f == calls[c]
      i == Hmac(asAscii(f.curve), f.mseed \o <<IF c = "c1" THEN 0 ELSE 1>>)
      il == Left(i)
      ir == Right(i)
  IN /\ f.pc = "master"
     /\ calls' = [calls EXCEPT ![c] =
          IF f.curve # Ed25519 /\ (isZero(il) \/ isGteN(f.curve, il))
          THEN [@ EXCEPT !.mseed = i]
          ELSE [@ EXCEPT !.result = [chainCode |-> ir, privkey |-> il],
                         !.pos = 0, !.pc = "loop"]]
     /\ UNCHANGED notSlip

\* master that keeps the seed of its retry in a buffer shared by all activations
MasterSharedBuffer(c) ==
  LET f == calls[c]
      i == Hmac(asAscii(f.curve), f.mseed)
      il == Left(i)
      ir == Right(i)
  IN /\ f.pc = "master"
     /\ calls' =
          IF f.curve # Ed25519 /\ (isZero(il) \/ isGteN(f.curve, il))
          THEN [d \in Calls |-> [calls[d] EXCEPT !.mseed = i]]
          ELSE [calls EXCEPT ![c] = [@ EXCEPT !.result = [chainCode |-> ir, privkey |-> il],
                                              !.pos = 0, !.pc = "loop"]]
     /\ UNCHANGED notSlip

\* master whose retry takes only the left half of I as the next seed
MasterRetryWithIL(c) ==
  LET f == calls[c]
      i == Hmac(asAscii(f.curve), f.mseed)
      il == Left(i)
      ir == Right(i)
  IN /\ f.pc = "master"
     /\ calls' = [calls EXCEPT ![c] =
          IF f.curve # Ed25519 /\ (isZero(il) \/ isGteN(f.curve, il))
          THEN [@ EXCEPT !.mseed = il]
          ELSE [@ EXCEPT !.result = [chainCode |-> ir, privkey |-> il],
                         !.pos = 0, !.pc = "loop"]]
     /\ UNCHANGED notSlip

\* master that range-checks IL on every curve, Ed25519 included
MasterChecksEveryCurve(c) ==
  LET f == calls[c]
      i == Hmac(asAscii(f.curve), f.mseed)
      il == Left(i)
      ir == Right(i)
  IN /\ f.pc = "master"
     /\ calls' = [calls EXCEPT ![c] =
          IF ~isZero(il) /\ nThrows(f.curve)
          THEN [@ EXCEPT !.pc = "thrown", !.error = "curve not supported"]
          ELSE IF isZero(il) \/ isGteN(f.curve, il)
          THEN [@ EXCEPT !.mseed = i]
          ELSE [@ EXCEPT !.result = [chainCode |-> ir, privkey |-> il],
                         !.pos = 0, !.pc = "loop"]]
     /\ UNCHANGED notSlip

\* one activation of master(curve, seed): either it calls itself with I as the seed
\* (line 54) or it returns (IR, IL) to derivePath (line 57)
Master(c) ==
  LET f == calls[c]
      i == Hmac(asAscii(f.curve), f.mseed)
      il == Left(i)
      ir == Right(i)
  IN /\ f.pc = "master"
     /\ calls' = [calls EXCEPT ![c] =
          IF f.curve # Ed25519 /\ ~isZero(il) /\ nThrows(f.curve)
          THEN [@ EXCEPT !.pc = "thrown", !.error = "curve not supported"]
          ELSE IF f.curve # Ed25519 /\ (isZero(il) \/ isGteN(f.curve, il))
          THEN [@ EXCEPT !.mseed = i]
          ELSE [@ EXCEPT !.result = [chainCode |-> ir, privkey |-> il],
                         !.pos = 0, !.pc = "loop"]]
     /\ UNCHANGED notSlip

\* child that derives through a normal index as if it were hardened
ChildNoCheck(c) ==
  LET f == calls[c]
      rawIndex == f.path[f.pos + 1]
  IN /\ f.pc = "loop"
     /\ f.pos < Len(f.path)
     /\ calls' = [calls EXCEPT ![c] =
            [@ EXCEPT !.i = Hmac(f.result.chainCode,
                                 <<0>> \o f.result.privkey \o toBytesBigEndian(rawIndex)),
                      !.childCalls = @ + 1, !.pc = "childImpl"]]
     /\ UNCHANGED notSlip

\* child whose two refusals carry each other's message
ChildSwappedErrors(c) ==
  LET f == calls[c]
      rawIndex == f.path[f.pos + 1]
  IN /\ f.pc = "loop"
     /\ f.pos < Len(f.path)
     /\ calls' = [calls EXCEPT ![c] =
          IF isHardened(rawIndex)
          THEN [@ EXCEPT !.i = Hmac(f.result.chainCode,
                                    <<0>> \o f.result.privkey \o toBytesBigEndian(rawIndex)),
                         !.childCalls = @ + 1, !.pc = "childImpl"]
          ELSE IF f.curve = Ed25519
          THEN [@ EXCEPT !.childCalls = @ + 1, !.pc = "thrown",
                         !.error = "Non-ed25519 normal key derivation not yet implemented"]
          ELSE [@ EXCEPT !.childCalls = @ + 1, !.pc = "thrown",
                         !.error = "Normal keys are not allowed with ed25519"]]
     /\ UNCHANGED notSlip

\* child that takes the indices of the path from its end
ChildReversed(c) ==
  LET f == calls[c]
      rawIndex == f.path[Len(f.path) - f.pos]
  IN /\ f.pc = "loop"
     /\ f.pos < Len(f.path)
     /\ calls' = [calls EXCEPT ![c] =
          IF isHardened(rawIndex)
          THEN [@ EXCEPT !.i = Hmac(f.result.chainCode,
                                    <<0>> \o f.result.privkey \o toBytesBigEndian(rawIndex)),
                         !.childCalls = @ + 1, !.pc = "childImpl"]
          ELSE IF f.curve = Ed25519
          THEN [@ EXCEPT !.childCalls = @ + 1, !.pc = "thrown",
                         !.error = "Normal keys are not allowed with ed25519"]
          ELSE [@ EXCEPT !.childCalls = @ + 1, !.pc = "thrown",
                         !.error = "Non-ed25519 normal key derivation not yet implemented"]]
     /\ UNCHANGED notSlip

\* child that hands the payload as the key and the chain code as the data
ChildKeyDataSwapped(c) ==
  LET f == calls[c]
      rawIndex == f.path[f.pos + 1]
  IN /\ f.pc = "loop"
     /\ f.pos < Len(f.path)
     /\ calls' = [calls EXCEPT ![c] =
          IF isHardened(rawIndex)
          THEN [@ EXCEPT !.i = Hmac(<<0>> \o f.result.privkey \o toBytesBigEndian(rawIndex),
                                    f.result.chainCode),
                         !.childCalls = @ + 1, !.pc = "childImpl"]
          ELSE IF f.curve = Ed25519
          THEN [@ EXCEPT !.childCalls = @ + 1, !.pc = "thrown",
                         !.error = "Normal keys are not allowed with ed25519"]
          ELSE [@ EXCEPT !.childCalls = @ + 1, !.pc = "thrown",
                         !.error = "Non-ed25519 normal key derivation not yet implemented"]]
     /\ UNCHANGED notSlip

\* child that computes I for every index before it looks at the kind of the index
ChildHmacFirst(c) ==
  LET f == calls[c]
      rawIndex == f.path[f.pos + 1]
      i == Hmac(f.result.chainCode, <<0>> \o f.result.privkey \o toBytesBigEndian(rawIndex))
  IN /\ f.pc = "loop"
     /\ f.pos < Len(f.path)
     /\ calls' = [calls EXCEPT ![c] =
          IF isHardened(rawIndex)
          THEN [@ EXCEPT !.i = i, !.childCalls = @ + 1, !.pc = "childImpl"]
          ELSE IF f.curve = Ed25519
          THEN [@ EXCEPT !.i = i, !.childCalls = @ + 1, !.pc = "thrown",
                         !.error = "Normal keys are not allowed with ed25519"]
          ELSE [@ EXCEPT !.i = i, !.childCalls = @ + 1, !.pc = "thrown",
                         !.error = "Non-ed25519 normal key derivation not yet implemented"]]
     /\ UNCHANGED notSlip

\* the loop of derivePath takes the next rawIndex and calls child (lines 42-43, 63-86):
\* child computes I for a hardened index and goes on to childImpl, and throws for a
\* normal index
Child(c) ==
  LET f == calls[c]
      rawIndex == f.path[f.pos + 1]
  IN /\ f.pc = "loop"
     /\ f.pos < Len(f.path)
     /\ calls' = [calls EXCEPT ![c] =
          IF isHardened(rawIndex)
          THEN [@ EXCEPT !.i = Hmac(f.result.chainCode,
                                    <<0>> \o f.result.privkey \o toBytesBigEndian(rawIndex)),
                         !.childCalls = @ + 1, !.pc = "childImpl"]
          ELSE IF f.curve = Ed25519
          THEN [@ EXCEPT !.childCalls = @ + 1, !.pc = "thrown",
                         !.error = "Normal keys are not allowed with ed25519"]
          ELSE [@ EXCEPT !.childCalls = @ + 1, !.pc = "thrown",
                         !.error = "Non-ed25519 normal key derivation not yet implemented"]]
     /\ UNCHANGED notSlip

\* childImpl that retries for IL >= n only and returns an all-zero key as it is
ChildImplNoZeroCheck(c) ==
  LET f == calls[c]
      rawIndex == f.path[f.pos + 1]
      il == Left(f.i)
      ir == Right(f.i)
      returnChildKey == IntToBytes((BytesToInt(il) + BytesToInt(f.result.privkey)) % N, KeyLen)
  IN /\ f.pc = "childImpl"
     /\ calls' = [calls EXCEPT ![c] =
          IF f.curve = Ed25519
          THEN [@ EXCEPT !.result = [chainCode |-> ir, privkey |-> il],
                         !.pos = @ + 1, !.pc = "loop"]
          ELSE IF isGteN(f.curve, il)
          THEN [@ EXCEPT !.i = Hmac(f.result.chainCode,
                                    <<1>> \o ir \o toBytesBigEndian(rawIndex))]
          ELSE [@ EXCEPT !.result = [chainCode |-> ir, privkey |-> returnChildKey],
                         !.pos = @ + 1, !.pc = "loop"]]
     /\ UNCHANGED notSlip

\* childImpl that returns the chain code of the first I of the step
ChildImplFirstChainCode(c) ==
  LET f == calls[c]
      rawIndex == f.path[f.pos + 1]
      il == Left(f.i)
      ir == Right(f.i)
      first == Hmac(f.result.chainCode,
                    <<0>> \o f.result.privkey \o toBytesBigEndian(rawIndex))
      returnChildKey == IntToBytes((BytesToInt(il) + BytesToInt(f.result.privkey)) % N, KeyLen)
  IN /\ f.pc = "childImpl"
     /\ calls' = [calls EXCEPT ![c] =
          IF f.curve = Ed25519
          THEN [@ EXCEPT !.result = [chainCode |-> ir, privkey |-> il],
                         !.pos = @ + 1, !.pc = "loop"]
          ELSE IF isGteN(f.curve, il) \/ isZero(returnChildKey)
          THEN [@ EXCEPT !.i = Hmac(f.result.chainCode,
                                    <<1>> \o ir \o toBytesBigEndian(rawIndex))]
          ELSE [@ EXCEPT !.result = [chainCode |-> Right(first), privkey |-> returnChildKey],
                         !.pos = @ + 1, !.pc = "loop"]]
     /\ UNCHANGED notSlip

\* childImpl that applies the range check and the retry on every curve
ChildImplRetryAllCurves(c) ==
  LET f == calls[c]
      rawIndex == f.path[f.pos + 1]
      il == Left(f.i)
      ir == Right(f.i)
      returnChildKey == IntToBytes((BytesToInt(il) + BytesToInt(f.result.privkey)) % N, KeyLen)
  IN /\ f.pc = "childImpl"
     /\ calls' = [calls EXCEPT ![c] =
          IF isGteN(f.curve, il) \/ isZero(returnChildKey)
          THEN [@ EXCEPT !.i = Hmac(f.result.chainCode,
                                    <<1>> \o ir \o toBytesBigEndian(rawIndex))]
          ELSE [@ EXCEPT !.result = [chainCode |-> ir,
                                     privkey |-> IF f.curve = Ed25519 THEN il
                                                 ELSE returnChildKey],
                         !.pos = @ + 1, !.pc = "loop"]]
     /\ UNCHANGED notSlip

\* one activation of childImpl (lines 88-129): it returns to the loop of derivePath, or
\* calls itself with a recomputed I (line 121)
ChildImpl(c) ==
  LET f == calls[c]
      rawIndex == f.path[f.pos + 1]
      il == Left(f.i)
      ir == Right(f.i)
      returnChildKey == IntToBytes((BytesToInt(il) + BytesToInt(f.result.privkey)) % N, KeyLen)
  IN /\ f.pc = "childImpl"
     /\ calls' = [calls EXCEPT ![c] =
          IF f.curve = Ed25519
          THEN [@ EXCEPT !.result = [chainCode |-> ir, privkey |-> il],
                         !.pos = @ + 1, !.pc = "loop"]
          ELSE IF nThrows(f.curve)
          THEN [@ EXCEPT !.pc = "thrown", !.error = "curve not supported"]
          ELSE IF isGteN(f.curve, il) \/ isZero(returnChildKey)
          THEN [@ EXCEPT !.i = Hmac(f.result.chainCode,
                                    <<1>> \o ir \o toBytesBigEndian(rawIndex))]
          ELSE [@ EXCEPT !.result = [chainCode |-> ir, privkey |-> returnChildKey],
                         !.pos = @ + 1, !.pc = "loop"]]
     /\ UNCHANGED notSlip

\* the loop is over: return result (line 45)
Return(c) ==
  LET f == calls[c]
  IN /\ f.pc = "loop"
     /\ f.pos = Len(f.path)
     /\ calls' = [calls EXCEPT ![c] = [@ EXCEPT !.returned = f.result, !.pc = "returned"]]
     /\ UNCHANGED notSlip

\* seeds: <<0,1,2,3>> has a valid first master I on Secp256k1; the master of
\* <<1,2,3,4>> is retried for an all-zero IL, those of <<3,4,5,6>> and
\* <<18,19,20,21>> are retried twice for IL >= n; on Secp256k1 the second child step
\* of <<250,251,252,253>> along hardened(2^31 - 1), hardened(1) rejects every I it
\* computes, the retries alternating between two I; on Ed25519 the master of
\* <<9,10,11,12>> and its children hardened(0) and hardened(2^31 - 1) have IL >= n
Seeds ==
  {<<0, 1, 2, 3>>, <<1, 2, 3, 4>>, <<3, 4, 5, 6>>, <<9, 10, 11, 12>>, <<18, 19, 20, 21>>,
   <<250, 251, 252, 253>>}

\* path indices: normal(0), normal(1), hardened(0), hardened(1), hardened(2^31 - 1)
PathIndices ==
  {normal(Num(0, 0)).data, normal(Num(0, 1)).data, hardened(Num(0, 0)).data,
   hardened(Num(0, 1)).data, hardened(Num(2 ^ 15 - 1, 2 ^ 16 - 1)).data}

\* longest path offered to derivePath
MaxPathLen == 2

Paths == UNION {[1..len -> PathIndices] : len \in 0..MaxPathLen}

SlipStep(c) ==
  \/ \E cv \in Slip0010Curve, sd \in Seeds, pth \in Paths : DerivePath(c, cv, sd, pth)
  \/ Master(c)
  \/ Child(c)
  \/ ChildImpl(c)
  \/ Return(c)

\* one call of derivePath, run from its start to its end
SlipNext == SlipStep("c1")

\* seed and indices of the calls that run side by side: on Secp256k1 the master of
\* <<18,19,20,21>> is retried twice and its child hardened(0) is retried twice
PairSeeds == {<<18, 19, 20, 21>>}

PairIndices == {normal(Num(0, 0)).data, hardened(Num(0, 0)).data, hardened(Num(0, 1)).data}

PairPaths == UNION {[1..len -> PairIndices] : len \in 0..MaxPathLen}

PairStep(c) ==
  \/ \E cv \in Slip0010Curve, sd \in PairSeeds, pth \in PairPaths : DerivePath(c, cv, sd, pth)
  \/ Master(c)
  \/ Child(c)
  \/ ChildImpl(c)
  \/ Return(c)

\* two calls of derivePath whose steps interleave in every order
SlipPairNext == PairStep("c1") \/ PairStep("c2")

----------------------------------------------------------------------------
(* Claims about Slip0010.derivePath                                        *)

\* the value hi * 2^16 + lo of the index is below 2^31
IsNormalIndex(rawIndex) == rawIndex.hi < 2 ^ 15

HasNormal(path) == \E k \in 1..Len(path) : IsNormalIndex(path[k])

\* the number of indices in front of the first normal index of a path that has one
HardenedPrefix(path) ==
  CHOOSE k \in 0..(Len(path) - 1) :
    IsNormalIndex(path[k + 1]) /\ \A j \in 1..k : ~IsNormalIndex(path[j])

\* most retries of a master computation that the claims follow
MaxRetries == 3

RECURSIVE MasterChain(_, _, _)
\* I0 = HMAC(key = curve string, data = seed), I(k+1) = HMAC(key = curve string, data = Ik)
MasterChain(curve, seed, k) ==
  IF k = 0 THEN Hmac(asAscii(curve), seed)
  ELSE CHOOSE i \in {Hmac(asAscii(curve), prev) : prev \in {MasterChain(curve, seed, k - 1)}} :
         TRUE

\* the left half of I is a private key of the curve
Acceptable(curve, i) == curve = Ed25519 \/ BytesToInt(Left(i)) \in 1..(N - 1)

\* node is the master node of (curve, seed): the halves of the first acceptable I
IsMasterNode(curve, seed, node) ==
  \E k \in 0..MaxRetries :
    /\ Acceptable(curve, MasterChain(curve, seed, k))
    /\ \A j \in 0..(k - 1) : ~Acceptable(curve, MasterChain(curve, seed, j))
    /\ node = [chainCode |-> Right(MasterChain(curve, seed, k)),
               privkey |-> Left(MasterChain(curve, seed, k))]

\* C7: on Ed25519 a call whose path has a normal index never returns a result; it does
\* not get past the hardened indices in front of the first normal index, and when it
\* ends it has failed with "Normal keys are not allowed with ed25519".
C7_Ed25519NormalRejected ==
  \A c \in Calls :
    LET f == calls[c]
    IN (f.pc # "idle" /\ f.curve = Ed25519 /\ HasNormal(f.path)) =>
         /\ f.pc # "returned"
         /\ f.returned = NoResult
         /\ f.pos <= HardenedPrefix(f.path)
         /\ f.pc = "thrown" <=> f.error # ""
         /\ f.pc = "thrown" =>
              /\ f.error = "Normal keys are not allowed with ed25519"
              /\ f.pos = HardenedPrefix(f.path)
         /\ (f.pc = "loop" /\ f.pos = HardenedPrefix(f.path)) => ENABLED Child(c)

\* the failure came after a hardened step
C7_Witness ==
  LET f == calls["c1"]
  IN /\ f.curve = Ed25519
     /\ f.pc = "thrown"
     /\ f.error = "Normal keys are not allowed with ed25519"
     /\ f.pos = 1
     /\ Len(f.path) = 2

\* C8: on Secp256k1 a call whose path has a normal index never returns a key; when it
\* ends it has failed with "Non-ed25519 normal key derivation not yet implemented".
C8_Secp256k1NormalNotImplemented ==
  \A c \in Calls :
    LET f == calls[c]
    IN (f.pc # "idle" /\ f.curve = Secp256k1 /\ HasNormal(f.path)) =>
         /\ f.pc # "returned"
         /\ f.returned = NoResult
         /\ f.pos <= HardenedPrefix(f.path)
         /\ f.pc = "thrown" <=> f.error # ""
         /\ f.pc = "thrown" =>
              /\ f.error = "Non-ed25519 normal key derivation not yet implemented"
              /\ f.pos = HardenedPrefix(f.path)
         /\ (f.pc = "loop" /\ f.pos = HardenedPrefix(f.path)) => ENABLED Child(c)

C8_Witness ==
  LET f == calls["c1"]
  IN /\ f.curve = Secp256k1
     /\ f.pc = "thrown"
     /\ f.error = "Non-ed25519 normal key derivation not yet implemented"
     /\ f.pos = 1
     /\ Len(f.path) = 2

\* C9: on Secp256k1 a call whose path has hardened indices only raises no error, and
\* a Secp256k1 call that has failed was at a normal index.
C9_Secp256k1HardenedNoError ==
  \A c \in Calls :
    LET f == calls[c]
    IN (f.pc # "idle" /\ f.curve = Secp256k1) =>
         /\ ~HasNormal(f.path) => f.pc # "thrown" /\ f.error = ""
         /\ f.pc = "thrown" => f.pos < Len(f.path) /\ IsNormalIndex(f.path[f.pos + 1])

\* a path of two hardened indices was derived to its end, the master having been retried
C9_Witness ==
  LET f == calls["c1"]
  IN /\ f.curve = Secp256k1
     /\ f.pc = "returned"
     /\ Len(f.path) = 2
     /\ ~HasNormal(f.path)
     /\ f.mseed # f.seed
     /\ f.error = ""

\* C10: with an empty path derivePath returns the master node of (curve, seed), and
\* child is not called.
C10_EmptyPathIsMaster ==
  \A c \in Calls :
    LET f == calls[c]
    IN (f.pc = "returned" /\ f.path = <<>>) =>
         /\ IsMasterNode(f.curve, f.seed, f.returned)
         /\ f.childCalls = 0

\* the master node of a seed whose first I is not acceptable on Secp256k1
C10_Witness ==
  LET f == calls["c1"]
  IN /\ f.pc = "returned"
     /\ f.path = <<>>
     /\ f.curve = Secp256k1
     /\ f.mseed # f.seed
     /\ f.childCalls = 0


\* I of the k-th attempt of the child step from parent with rawIndex: the first is
\* HMAC(key = parent chain code, data = 0x00 || parent key || index), each later one
\* HMAC(key = parent chain code, data = 0x01 || IR of the attempt before || index)
RECURSIVE ChildChain(_, _, _)
ChildChain(parent, rawIndex, k) ==
  IF k = 0
  THEN Hmac(parent.chainCode, <<0>> \o parent.privkey \o toBytesBigEndian(rawIndex))
  ELSE CHOOSE i \in {Hmac(parent.chainCode, <<1>> \o Right(prev) \o toBytesBigEndian(rawIndex)) :
                      prev \in {ChildChain(parent, rawIndex, k - 1)}} : TRUE

\* the child key that I gives on Secp256k1: (IL + parent key) mod n
ChildKey(parent, i) ==
  IntToBytes((BytesToInt(Left(i)) + BytesToInt(parent.privkey)) % N, KeyLen)

ChildAcceptable(curve, parent, i) ==
  curve = Ed25519 \/ (BytesToInt(Left(i)) < N /\ BytesToInt(ChildKey(parent, i)) # 0)

\* node is the child of parent at the hardened rawIndex: one child step
IsChildNode(curve, parent, rawIndex, node) ==
  \E k \in 0..MaxRetries :
    /\ ChildAcceptable(curve, parent, ChildChain(parent, rawIndex, k))
    /\ \A j \in 0..(k - 1) : ~ChildAcceptable(curve, parent, ChildChain(parent, rawIndex, j))
    /\ node = [chainCode |-> Right(ChildChain(parent, rawIndex, k)),
               privkey |-> IF curve = Ed25519 THEN Left(ChildChain(parent, rawIndex, k))
                           ELSE ChildKey(parent, ChildChain(parent, rawIndex, k))]

Front(path) == SubSeq(path, 1, Len(path) - 1)
Last(path) == path[Len(path)]

\* C11: derivePath is a fold from the left: when a call for (curve, seed, p ++ [i]) and
\* a call for (curve, seed, p) have both returned, the result of the first is one child
\* step with index i from the result of the second; a call returns the node it holds
\* after the last index of its path and nothing before.
C11_LeftFold ==
  /\ \A c \in Calls, d \in Calls :
       LET f == calls[c]
           g == calls[d]
       IN (/\ f.pc = "returned" /\ g.pc = "returned"
           /\ f.curve = g.curve /\ f.seed = g.seed
           /\ f.path # <<>> /\ g.path = Front(f.path)) =>
            IsChildNode(f.curve, g.returned, Last(f.path), f.returned)
  /\ \A c \in Calls :
       LET f == calls[c]
       IN /\ f.pc = "returned" => f.pos = Len(f.path) /\ f.returned = f.result
          /\ f.pc # "returned" => f.returned = NoResult

\* a path of two indices and its prefix of one index have both been derived
C11_Witness ==
  LET f == calls["c1"]
      g == calls["c2"]
  IN /\ f.pc = "returned" /\ g.pc = "returned"
     /\ f.curve = g.curve /\ f.seed = g.seed
     /\ Len(f.path) = 2 /\ g.path = Front(f.path)
     /\ f.path[1] # f.path[2]

Ended(f) == f.pc \in {"returned", "thrown"}

C13_Terminates ==
  \A c \in Calls : (calls[c].pc # "idle") ~> Ended(calls[c])

\* the master node of (curve, seed), for a master computation that ends
MasterNodeOf(curve, seed) ==
  LET k == CHOOSE k \in 0..MaxRetries :
             /\ Acceptable(curve, MasterChain(curve, seed, k))
             /\ \A j \in 0..(k - 1) : ~Acceptable(curve, MasterChain(curve, seed, j))
  IN [chainCode |-> Right(MasterChain(curve, seed, k)),
      privkey |-> Left(MasterChain(curve, seed, k))]

\* the child of parent at the hardened rawIndex, for a child step that ends
ChildNodeOf(curve, parent, rawIndex) ==
  LET k == CHOOSE k \in 0..MaxRetries :
             /\ ChildAcceptable(curve, parent, ChildChain(parent, rawIndex, k))
             /\ \A j \in 0..(k - 1) :
                  ~ChildAcceptable(curve, parent, ChildChain(parent, rawIndex, j))
  IN [chainCode |-> Right(ChildChain(parent, rawIndex, k)),
      privkey |-> IF curve = Ed25519 THEN Left(ChildChain(parent, rawIndex, k))
                  ELSE ChildKey(parent, ChildChain(parent, rawIndex, k))]

RECURSIVE AloneResult(_, _, _)
\* what a call for (curve, seed, path), path of hardened indices, returns by itself
AloneResult(curve, seed, path) ==
  IF path = <<>> THEN MasterNodeOf(curve, seed)
  ELSE CHOOSE node \in {ChildNodeOf(curve, parent, Last(path)) :
                         parent \in {AloneResult(curve, seed, Front(path))}} : TRUE

\* the error a call for (curve, path) with a normal index in path ends with
AloneError(curve, path) ==
  IF curve = Ed25519 THEN "Normal keys are not allowed with ed25519"
  ELSE "Non-ed25519 normal key derivation not yet implemented"

\* the outcome of an ended call is the outcome of its inputs alone
OwnOutcome(f) ==
  /\ f.pc = "returned" => ~HasNormal(f.path) /\ f.returned = AloneResult(f.curve, f.seed, f.path)
  /\ f.pc = "thrown" => HasNormal(f.path) /\ f.error = AloneError(f.curve, f.path)

\* a step of the system is a step of one call: the other call's record is untouched, and
\* the inputs of a started call stay as they were passed
StepOfOneCall ==
  /\ \E c \in Calls : \A d \in Calls \ {c} : calls'[d] = calls[d]
  /\ \A c \in Calls :
       calls[c].pc # "idle" =>
         /\ calls'[c].curve = calls[c].curve
         /\ calls'[c].seed = calls[c].seed
         /\ calls'[c].path = calls[c].path

\* C14: calls of derivePath do not interfere: however the steps of two calls interleave,
\* each step touches the state of one call only and leaves its inputs as passed, and
\* each call ends with the outcome its own (curve, seed, path) gives by itself.
C14_NoInterference ==
  /\ [](\A c \in Calls : OwnOutcome(calls[c]))
  /\ [][StepOfOneCall]_vars

\* two calls with different inputs have both returned, one after master retries
C14_Witness ==
  LET f == calls["c1"]
      g == calls["c2"]
  IN /\ f.pc = "returned" /\ g.pc = "returned"
     /\ f.curve = Secp256k1 /\ g.curve = Ed25519
     /\ f.mseed # f.seed
     /\ Len(f.path) >= 1 /\ Len(g.path) >= 1
     /\ f.path # g.path

----------------------------------------------------------------------------
(* secureWrap (iov-stream/src/secureWrap.ts): Foo and secureFoo            *)

\* values a property read or a method call gives
Undefined == [kind |-> "undefined", val |-> ""]
Str(str) == [kind |-> "string", val |-> str]
Bool(b) == [kind |-> "boolean", val |-> IF b THEN "true" ELSE "false"]

\* new Foo(shared, secret): the two fields (lines 19-22)
Foo(shared, secret) == [made |-> TRUE, shared |-> shared, secret |-> secret]

\* Foo.isSecret(guess), with this = foo (lines 24-26)
isSecret(foo, guess) == guess = foo.secret

\* a wrapper that is a copy of the fields of raw with isSecret bound to raw
secureFooCopy(raw) ==
  [made |-> TRUE, accessors |-> {}, methods |-> {"isSecret"},
   own |-> [shared |-> Str(raw.shared), secret |-> Str(raw.secret)]]

\* secureFoo(raw) (lines 30-42): an object literal with a getter and a setter for
\* shared, both going to raw, and isSecret bound to raw; it has no other property
secureFoo(raw) ==
  [made |-> TRUE, accessors |-> {"shared"}, methods |-> {"isSecret"},
   own |-> [shared |-> Undefined, secret |-> Undefined]]

NoFoo == [made |-> FALSE, shared |-> "", secret |-> ""]
NoSecure ==
  [made |-> FALSE, accessors |-> {}, methods |-> {},
   own |-> [shared |-> Undefined, secret |-> Undefined]]
NoWrite == [via |-> "none", val |-> ""]
NoRead == [obj |-> "none", prop |-> "", arg |-> "", value |-> Undefined]
NoWrap == [foo |-> NoFoo, secure |-> NoSecure, lastWrite |-> NoWrite, read |-> NoRead]

\* const foo = new Foo(shared, secret)
NewFoo(shared, secret) ==
  /\ ~wrap.foo.made
  /\ wrap' = [wrap EXCEPT !.foo = Foo(shared, secret)]
  /\ UNCHANGED notWrap

\* const secure = secureFoo(foo)
SecureFoo ==
  /\ wrap.foo.made
  /\ ~wrap.secure.made
  /\ wrap' = [wrap EXCEPT !.secure = secureFoo(wrap.foo)]
  /\ UNCHANGED notWrap

\* (obj as any).shared = val: on foo the field is assigned; on the wrapper the setter
\* assigns raw.shared (lines 36-39), and without a setter the wrapper's own property
\* would be assigned
SetShared(obj, val) ==
  /\ wrap.foo.made
  /\ obj = "secure" => wrap.secure.made
  /\ wrap' = [wrap EXCEPT
       !.foo = IF obj = "foo" \/ "shared" \in wrap.secure.accessors
               THEN [@ EXCEPT !.shared = val] ELSE @,
       !.secure = IF obj = "secure" /\ "shared" \notin wrap.secure.accessors
                  THEN [@ EXCEPT !.own.shared = Str(val)] ELSE @,
       !.lastWrite = [via |-> obj, val |-> val],
       !.read = NoRead]
  /\ UNCHANGED notWrap

\* (obj as any)[prop]: a field of foo; on the wrapper the getter of an accessor
\* (lines 32-34), else its own property, else undefined
GetProp(obj, prop) ==
  /\ wrap.foo.made
  /\ obj = "secure" => wrap.secure.made
  /\ wrap' = [wrap EXCEPT !.read =
       [obj |-> obj, prop |-> prop, arg |-> "",
        value |-> IF obj = "foo" THEN Str(wrap.foo[prop])
                  ELSE IF prop \in wrap.secure.accessors THEN Str(wrap.foo[prop])
                  ELSE wrap.secure.own[prop]]]
  /\ UNCHANGED notWrap

\* obj.isSecret(guess): on the wrapper it is raw.isSecret bound to raw (line 40)
IsSecret(obj, guess) ==
  /\ wrap.foo.made
  /\ obj = "secure" => wrap.secure.made /\ "isSecret" \in wrap.secure.methods
  /\ wrap' = [wrap EXCEPT !.read =
       [obj |-> obj, prop |-> "isSecret", arg |-> guess,
        value |-> Bool(isSecret(wrap.foo, guess))]]
  /\ UNCHANGED notWrap

WrapObjects == {"foo", "secure"}
WrapStrings == {"Public", "Private", "new"}
WrapProps == {"shared", "secret"}

WrapNext ==
  \/ \E shared \in WrapStrings, secret \in WrapStrings : NewFoo(shared, secret)
  \/ SecureFoo
  \/ \E obj \in WrapObjects, val \in WrapStrings : SetShared(obj, val)
  \/ \E obj \in WrapObjects, prop \in WrapProps : GetProp(obj, prop)
  \/ \E obj \in WrapObjects, guess \in WrapStrings : IsSecret(obj, guess)

----------------------------------------------------------------------------
(* Claims about Slip0010RawIndex and Uint32                                *)

\* the number hi * 2^16 + lo lies in [0, 2^31)
Below2p31(x) == x.hi >= 0 /\ x.hi < 2 ^ 15 /\ x.lo \in 0..(2 ^ 16 - 1)

\* the number hi * 2^16 + lo lies in [0, 2^32 - 1]
InUint32Range(x) == x.hi >= 0 /\ x.hi < 2 ^ 16 /\ x.lo \in 0..(2 ^ 16 - 1)

\* bit 31 of the number hi * 2^16 + lo, which is bit 15 of hi
Bit31(x) == (x.hi \div 2 ^ 15) % 2

\* C15: for i in [0, 2^31), hardened(i) has the value i + 2^31 and isHardened() is true;
\* for every constructed index isHardened() is true exactly when bit 31 of its value is set.
C15_HardenedBit ==
  /\ (uint.op = "hardened" /\ Below2p31(uint.input)) =>
       /\ uint.error = ""
       /\ uint.data = Num(uint.input.hi + 2 ^ 15, uint.input.lo)
       /\ "isHardened" \in uint.done => uint.isHardened
  /\ "isHardened" \in uint.done => (uint.isHardened <=> Bit31(uint.data) = 1)

\* hardened(0): the value is 2^31 and isHardened() has returned true
C15_Witness ==
  /\ uint.op = "hardened"
  /\ uint.input = Num(0, 0)
  /\ uint.data = Num(2 ^ 15, 0)
  /\ "isHardened" \in uint.done
  /\ uint.isHardened

\* C16: normal(i) constructs an index for i in [0, 2^31) only, and isHardened() of an
\* index built by normal is false.
C16_NormalIsNotHardened ==
  (uint.op = "normal" /\ uint.error = "") =>
    /\ Below2p31(uint.input)
    /\ "isHardened" \in uint.done => ~uint.isHardened

\* C17: every constructed Slip0010RawIndex has its value in [0, 2^32 - 1] and holds the
\* number its constructor computed; hardened(i) with i >= 2^31 and every negative value
\* fail with "Input not in uint32 range" and are not wrapped around.
C17_RawIndexInRange ==
  uint.op \in {"normal", "hardened"} =>
    LET value == IF uint.op = "normal" THEN uint.input
                 ELSE Num(uint.input.hi + 2 ^ 15, uint.input.lo)
    IN /\ uint.error \in {"", "Input not in uint32 range"}
       /\ uint.error = "" <=> InUint32Range(value)
       /\ uint.error = "" => uint.data = value /\ InUint32Range(uint.data)
       /\ (uint.op = "hardened" /\ uint.input.hi >= 2 ^ 15) =>
            uint.error = "Input not in uint32 range"
       /\ value.hi < 0 => uint.error = "Input not in uint32 range"

\* hardened(2^31) has been refused
C17_Witness ==
  /\ uint.op = "hardened"
  /\ uint.input = Num(2 ^ 15, 0)
  /\ uint.error = "Input not in uint32 range"

\* C18: for x in [0, 2^32 - 1], new Uint32(x) succeeds, asNumber() is x,
\* toBytesBigEndian() is four bytes in 0..255 with the most significant first, and
\* fromBigEndianBytes of these bytes is x again; fromBigEndianBytes fails for an input
\* whose length is not 4 or that has an element outside 0..255.
C18_Uint32RoundTrip ==
  /\ (uint.op = "Uint32" /\ InUint32Range(uint.input)) =>
       /\ uint.error = ""
       /\ "asNumber" \in uint.done => uint.number = uint.input
       /\ "toBytesBigEndian" \in uint.done =>
            /\ Len(uint.bytes) = 4
            /\ \A k \in 1..4 : uint.bytes[k] \in 0..255
            /\ uint.bytes[1] * 256 + uint.bytes[2] = uint.input.hi
            /\ uint.bytes[3] * 256 + uint.bytes[4] = uint.input.lo
       /\ "back" \in uint.done => uint.back = [error |-> "", data |-> uint.input]
  /\ uint.op = "fromBigEndianBytes" =>
       /\ Len(uint.bytesIn) # 4 => uint.error = "Invalid input length"
       /\ (Len(uint.bytesIn) = 4 /\ \E k \in 1..4 : uint.bytesIn[k] \notin 0..255) =>
            uint.error = "Invalid value in byte"
       /\ (Len(uint.bytesIn) = 4 /\ \A k \in 1..4 : uint.bytesIn[k] \in 0..255) =>
            /\ uint.error = ""
            /\ uint.data = Num(uint.bytesIn[1] * 256 + uint.bytesIn[2],
                               uint.bytesIn[3] * 256 + uint.bytesIn[4])

\* 2^31 + 5 went to bytes and back
C18_Witness ==
  /\ uint.op = "Uint32"
  /\ uint.input = Num(2 ^ 15, 5)
  /\ uint.bytes = <<128, 0, 0, 5>>
  /\ "back" \in uint.done
  /\ "asNumber" \in uint.done
  /\ uint.back.data = uint.input

----------------------------------------------------------------------------
(* Claims about secureFoo                                                  *)

\* C19: for s = secureFoo(foo): reading s.secret gives undefined; s.isSecret(g) is true
\* exactly when g is foo's secret; and a read of s.shared or of foo.shared after a write
\* to s.shared gives the value written last.
C19_SecureFoo ==
  /\ (wrap.read.obj = "secure" /\ wrap.read.prop = "secret") => wrap.read.value = Undefined
  /\ (wrap.read.obj = "secure" /\ wrap.read.prop = "isSecret") =>
       wrap.read.value = Bool(wrap.read.arg = wrap.foo.secret)
  /\ (wrap.lastWrite.via = "secure" /\ wrap.read.prop = "shared") =>
       wrap.read.value = Str(wrap.lastWrite.val)
  /\ wrap.lastWrite.via = "secure" => wrap.foo.shared = wrap.lastWrite.val

\* "new" was written to s.shared of a Foo("Public", "Private") and read back from foo
C19_Witness ==
  /\ wrap.secure.made
  /\ wrap.foo.secret = "Private"
  /\ wrap.lastWrite = [via |-> "secure", val |-> "new"]
  /\ wrap.read = [obj |-> "foo", prop |-> "shared", arg |-> "", value |-> Str("new")]

----------------------------------------------------------------------------
(* Claims about Slip0010.master                                            *)

\* the seed of the k-th activation of master for (curve, seed): the seed passed in for
\* k = 0, and after that the whole of the I the activation before it rejected
MasterSeed(curve, seed, k) == IF k = 0 THEN seed ELSE MasterChain(curve, seed, k - 1)

\* C20: on Secp256k1 every activation of master works on the seed passed in or on the
\* whole I (2 * KeyLen bytes) of the activation before, all I before it having an IL that
\* is zero or >= n; what master returns are the halves of the first I of the chain whose
\* IL is in [1, n-1], so the returned privkey is in [1, n-1].
C20_MasterChain ==
  \A c \in Calls :
    LET f == calls[c]
    IN f.curve = Secp256k1 =>
         /\ f.pc = "master" =>
              \E k \in 0..MaxRetries :
                /\ f.mseed = MasterSeed(f.curve, f.seed, k)
                /\ k > 0 => Len(f.mseed) = 2 * KeyLen
                /\ \A j \in 0..(k - 1) :
                     LET il == BytesToInt(Left(MasterChain(f.curve, f.seed, j)))
                     IN il = 0 \/ il >= N
         /\ (f.pc = "loop" /\ f.pos = 0) =>
              /\ IsMasterNode(f.curve, f.seed, f.result)
              /\ f.result = [chainCode |-> Right(Hmac(asAscii(f.curve), f.mseed)),
                             privkey |-> Left(Hmac(asAscii(f.curve), f.mseed))]
              /\ BytesToInt(f.result.privkey) \in 1..(N - 1)
              /\ Len(f.result.privkey) = KeyLen /\ Len(f.result.chainCode) = KeyLen

\* master has returned after rejecting two I
C20_Witness ==
  LET f == calls["c1"]
  IN /\ f.curve = Secp256k1
     /\ f.pc = "loop" /\ f.pos = 0
     /\ f.mseed = MasterChain(f.curve, f.seed, 1)
     /\ f.mseed # f.seed
     /\ BytesToInt(f.result.privkey) \in 1..(N - 1)

----------------------------------------------------------------------------
(* Claims about Slip0010.child and childImpl                               *)

\* what an activation of childImpl on Secp256k1 does with the I it was given: it calls
\* itself with I' = HMAC(parent chain code, 0x01 || IR || index) exactly when IL >= n or
\* (IL + parent key) mod n is zero, and else it returns that sum as KeyLen bytes
SecpChildImplStep(f, g) ==
  LET il == BytesToInt(Left(f.i))
      candidate == (il + BytesToInt(f.result.privkey)) % N
  IN IF il >= N \/ candidate = 0
     THEN /\ g.pc = "childImpl"
          /\ g.i = Hmac(f.result.chainCode,
                        <<1>> \o Right(f.i) \o toBytesBigEndian(f.path[f.pos + 1]))
          /\ g.result = f.result /\ g.pos = f.pos
     ELSE /\ g.pc = "loop"
          /\ g.pos = f.pos + 1
          /\ g.result.privkey = IntToBytes(candidate, KeyLen)
          /\ Len(g.result.privkey) = KeyLen

\* C21: on Secp256k1 the child step returns (IL + parent key) mod n as big-endian bytes
\* of the key width and retries with I' exactly when IL >= n or that key is zero; every
\* key a child step has returned is in [1, n-1].
C21_SecpChildKey ==
  /\ [][\A c \in Calls :
          (/\ calls[c].curve = Secp256k1 /\ calls[c].pc = "childImpl"
           /\ calls'[c] # calls[c]) => SecpChildImplStep(calls[c], calls'[c])]_vars
  /\ [](\A c \in Calls :
          (/\ calls[c].curve = Secp256k1 /\ calls[c].pc \in {"loop", "childImpl", "returned"}
           /\ calls[c].pos >= 1) => BytesToInt(calls[c].result.privkey) \in 1..(N - 1))

\* the first child step has returned a key after an attempt whose IL was below n and
\* whose candidate key was zero
C21_Witness ==
  LET f == calls["c1"]
      i == Hmac(asAscii(f.curve), f.mseed)
      m == [chainCode |-> Right(i), privkey |-> Left(i)]
  IN /\ f.curve = Secp256k1
     /\ f.pc = "loop" /\ f.pos = 1
     /\ \E k \in 0..MaxRetries :
          /\ BytesToInt(Left(ChildChain(m, f.path[1], k))) < N
          /\ BytesToInt(ChildKey(m, ChildChain(m, f.path[1], k))) = 0
     /\ BytesToInt(f.result.privkey) \in 1..(N - 1)

\* C22: the chain code a child step returns is the IR half of the I its returned key was
\* computed from: the I of the activation of childImpl that returns, which after retries
\* is the last recomputed I and not the first.
C22_ChainCodeOfLastI ==
  [][\A c \in Calls :
       LET f == calls[c]
           g == calls'[c]
       IN (f.pc = "childImpl" /\ g.pc = "loop") =>
            /\ g.result.chainCode = Right(f.i)
            /\ Len(g.result.chainCode) = KeyLen
            /\ g.result.privkey = IF f.curve = Ed25519 THEN Left(f.i)
                                  ELSE ChildKey(f.result, f.i)]_vars

\* the first child step was retried and has returned a chain code that is not the IR of
\* its first I
C22_Witness ==
  LET f == calls["c1"]
      i == Hmac(asAscii(f.curve), f.mseed)
      m == [chainCode |-> Right(i), privkey |-> Left(i)]
  IN /\ f.curve = Secp256k1
     /\ f.pc = "loop" /\ f.pos = 1
     /\ ~ChildAcceptable(f.curve, m, ChildChain(m, f.path[1], 0))
     /\ f.result.chainCode # Right(ChildChain(m, f.path[1], 0))
     /\ IsChildNode(f.curve, m, f.path[1], f.result)

\* the two halves of I as a node
Halves(i) == [chainCode |-> Right(i), privkey |-> Left(i)]

\* C23: on Ed25519 nothing is checked and nothing is retried: master returns the halves
\* of the one HMAC over the seed, and a hardened child step returns the halves of the one
\* HMAC over 0x00 || parent key || index, whatever the value of IL.
C23_Ed25519NoRetry ==
  /\ [](\A c \in Calls :
          LET f == calls[c]
          IN (f.curve = Ed25519 /\ f.pc # "idle") =>
               /\ f.mseed = f.seed
               /\ (f.pc = "loop" /\ f.pos = 0) =>
                    f.result = Halves(Hmac(asAscii(Ed25519), f.seed))
               /\ f.pc = "childImpl" =>
                    f.i = Hmac(f.result.chainCode,
                               <<0>> \o f.result.privkey \o toBytesBigEndian(f.path[f.pos + 1])))
  /\ [][\A c \in Calls :
          LET f == calls[c]
              g == calls'[c]
          IN (f.curve = Ed25519 /\ g # f) =>
               /\ f.pc = "master" => g.pc = "loop" /\ g.pos = 0
               /\ f.pc = "childImpl" =>
                    g.pc = "loop" /\ g.pos = f.pos + 1 /\ g.result = Halves(f.i)]_vars

\* an Ed25519 master key that is all-zero or at least n, and a child key below it that is
\* all-zero or at least n, have been returned
C23_Witness ==
  LET f == calls["c1"]
      il == BytesToInt(Left(Hmac(asAscii(Ed25519), f.seed)))
  IN /\ f.curve = Ed25519
     /\ f.pc = "loop" /\ f.pos = 1
     /\ il = 0 \/ il >= N
     /\ BytesToInt(f.result.privkey) = 0 \/ BytesToInt(f.result.privkey) >= N

\* the personalization string of the curve as ASCII bytes: "Bitcoin seed", "ed25519 seed"
Personalization(curve) ==
  IF curve = Secp256k1
  THEN <<66, 105, 116, 99, 111, 105, 110, 32, 115, 101, 101, 100>>
  ELSE <<101, 100, 50, 53, 53, 49, 57, 32, 115, 101, 101, 100>>

FirstHalf(i) == SubSeq(i, 1, KeyLen)
LastHalf(i) == SubSeq(i, KeyLen + 1, 2 * KeyLen)

\* C24: master computes I = HMAC(key = personalization string of the curve in ASCII,
\* data = seed) and a hardened child step computes I = HMAC(key = parent chain code,
\* data = 0x00 || parent key || 4-byte big-endian index); the key comes from the first
\* half of I and the chain code is its last half.
C24_HmacInputs ==
  [][\A c \in Calls :
       LET f == calls[c]
           g == calls'[c]
           mi == Hmac(Personalization(f.curve), f.mseed)
       IN /\ (f.pc = "idle" /\ g.pc = "master") => g.mseed = g.seed
          /\ (f.pc = "master" /\ g # f) =>
               \/ g.pc = "master" /\ g.mseed = mi
               \/ /\ g.pc = "loop"
                  /\ g.result = [chainCode |-> LastHalf(mi), privkey |-> FirstHalf(mi)]
          /\ (f.pc = "loop" /\ g.pc = "childImpl") =>
               /\ g.i = Hmac(f.result.chainCode,
                             <<0>> \o f.result.privkey \o toBytesBigEndian(f.path[f.pos + 1]))
               /\ Len(<<0>> \o f.result.privkey \o toBytesBigEndian(f.path[f.pos + 1]))
                    = 1 + KeyLen + 4
               /\ Len(g.i) = 2 * KeyLen
          /\ (f.pc = "childImpl" /\ g.pc = "loop") =>
               /\ g.result.chainCode = LastHalf(f.i)
               /\ g.result.privkey =
                    IF f.curve = Ed25519 THEN FirstHalf(f.i)
                    ELSE IntToBytes((BytesToInt(FirstHalf(f.i)) + BytesToInt(f.result.privkey)) % N,
                                    KeyLen)]_vars

\* the I of a second child step, at hardened(1) below a first child, has been computed
C24_Witness ==
  LET f == calls["c1"]
  IN /\ f.pc = "childImpl" /\ f.pos = 1
     /\ f.path[2] = hardened(Num(0, 1)).data
     /\ f.i = Hmac(f.result.chainCode, <<0>> \o f.result.privkey \o <<128, 0, 0, 1>>)

\* C25: a normal index requested on Ed25519 is refused before any HMAC computation:
\* the child step ends with "Normal keys are not allowed with ed25519" and has
\* computed no I (the I and the node of the steps before it are untouched).
C25_RefusedBeforeHmac ==
  [][\A c \in Calls :
       LET f == calls[c]
           g == calls'[c]
       IN (/\ f.pc = "loop" /\ f.pos < Len(f.path) /\ g # f
           /\ f.curve = Ed25519 /\ IsNormalIndex(f.path[f.pos + 1])) =>
            /\ g.pc = "thrown"
            /\ g.error = "Normal keys are not allowed with ed25519"
            /\ g.i = f.i
            /\ g.result = f.result
            /\ g.mseed = f.mseed
            /\ g.pos = f.pos]_vars

\* a normal index after a hardened one has been refused on Ed25519
C25_Witness ==
  LET f == calls["c1"]
  IN /\ f.pc = "thrown" /\ f.curve = Ed25519
     /\ f.error = "Normal keys are not allowed with ed25519"
     /\ f.pos = 1 /\ f.childCalls = 2
     /\ IsNormalIndex(f.path[2])
     /\ f.i # Hmac(f.result.chainCode, <<0>> \o f.result.privkey \o toBytesBigEndian(f.path[2]))

\* C26: on Ed25519 derivePath raises no error for any seed and any path whose indices
\* are all hardened, and the lookup n(curve) with its "curve not supported" is never
\* reached on an Ed25519 derivation, whatever the path.
C26_Ed25519NoError ==
  \A c \in Calls :
    LET f == calls[c]
    IN (f.pc # "idle" /\ f.curve = Ed25519) =>
         /\ f.error # "curve not supported"
         /\ ~HasNormal(f.path) => (f.pc # "thrown" /\ f.error = "")
         /\ f.pc = "thrown" =>
              /\ f.pos < Len(f.path)
              /\ IsNormalIndex(f.path[f.pos + 1])
              /\ f.error = "Normal keys are not allowed with ed25519"

\* an Ed25519 derivation along two hardened indices has returned, its master IL and
\* a child IL being values that n would have been consulted for on another curve
C26_Witness ==
  LET f == calls["c1"]
  IN /\ f.pc = "returned" /\ f.curve = Ed25519
     /\ Len(f.path) = 2 /\ ~HasNormal(f.path)
     /\ f.error = ""
     /\ BytesToInt(FirstHalf(Hmac(Personalization(Ed25519), f.seed))) >= N
     /\ BytesToInt(f.returned.privkey) >= N

----------------------------------------------------------------------------
(* QueueingWebSocket (client.spec.ts:430-502)                              *)
(*                                                                         *)
(* The WebSocket of isomorphic-ws is the environment: a socket is created  *)
(* CONNECTING, an open event makes it OPEN, close() makes a socket that is *)
(* CONNECTING or OPEN go CLOSING, an error event is delivered at most once *)
(* to a socket that has not closed and leaves it CLOSING or CLOSED, and a  *)
(* close event is delivered once and leaves it CLOSED.  Handlers run one   *)
(* at a time, each to its end; sockets replaced by a later connect() keep  *)
(* their handlers and their events are still delivered.                    *)

\* this.socket before the first connect(): undefined
NoSocket == 0

\* calls of public methods that the model follows
MaxCalls == 3

\* message events that the model delivers
MaxMessages == 1

\* the strings handed to sendNow
SendData == {"a", "b"}

NoOp == [op |-> "none", n |-> 0, error |-> "", data |-> ""]

\* no QueueingWebSocket has been constructed
NoQueueingWebSocket ==
  [made |-> FALSE, openHandler |-> FALSE, closeHandler |-> FALSE,
   connected |-> "pending", socket |-> NoSocket, closed |-> FALSE,
   sockets |-> <<>>, sent |-> <<>>, openHandlerSaw |-> <<>>,
   closeHandlerCalls |-> 0, errorHandlerCalls |-> 0, messageHandlerCalls |-> 0,
   lastOp |-> NoOp]

\* new QueueingWebSocket(url, messageHandler, errorHandler, openHandler?, closeHandler?):
\* connected is a pending promise, socket is undefined, closed is false
NewQueueingWebSocket(openHandler, closeHandler) ==
  /\ ~qws.made
  /\ qws' = [NoQueueingWebSocket EXCEPT !.made = TRUE, !.openHandler = openHandler,
                                        !.closeHandler = closeHandler]
  /\ UNCHANGED notQws

\* connect() that starts afresh: it clears the closed flag for the new socket
ConnectResetsClosed ==
  /\ qws.made
  /\ qws.lastOp.n < MaxCalls
  /\ qws' = [qws EXCEPT
       !.sockets = Append(@, [readyState |-> "CONNECTING", opened |-> FALSE,
                              errorFired |-> FALSE, closeFired |-> FALSE]),
       !.socket = Len(qws.sockets) + 1,
       !.closed = FALSE,
       !.lastOp = [op |-> "connect", n |-> qws.lastOp.n + 1, error |-> "", data |-> ""]]
  /\ UNCHANGED notQws

\* connect(): a new socket with the four handlers becomes this.socket
Connect ==
  /\ qws.made
  /\ qws.lastOp.n < MaxCalls
  /\ qws' = [qws EXCEPT
       !.sockets = Append(@, [readyState |-> "CONNECTING", opened |-> FALSE,
                              errorFired |-> FALSE, closeFired |-> FALSE]),
       !.socket = Len(qws.sockets) + 1,
       !.lastOp = [op |-> "connect", n |-> qws.lastOp.n + 1, error |-> "", data |-> ""]]
  /\ UNCHANGED notQws

\* disconnect() that creates the socket it misses and closes that one
DisconnectConnectsFirst ==
  /\ qws.made
  /\ qws.lastOp.n < MaxCalls
  /\ qws' =
       IF qws.socket = NoSocket
       THEN [qws EXCEPT
               !.sockets = Append(@, [readyState |-> "CLOSING", opened |-> FALSE,
                                      errorFired |-> FALSE, closeFired |-> FALSE]),
               !.socket = Len(qws.sockets) + 1,
               !.lastOp = [op |-> "disconnect", n |-> qws.lastOp.n + 1,
                           error |-> "Socket undefined. This must be called after connecting.",
                           data |-> ""]]
       ELSE [qws EXCEPT
               !.sockets[qws.socket].readyState =
                  IF @ \in {"CONNECTING", "OPEN"} THEN "CLOSING" ELSE @,
               !.lastOp = [op |-> "disconnect", n |-> qws.lastOp.n + 1, error |-> "",
                           data |-> ""]]
  /\ UNCHANGED notQws

\* disconnect(): throws without a socket, else this.socket.close(1000)
Disconnect ==
  /\ qws.made
  /\ qws.lastOp.n < MaxCalls
  /\ qws' =
       IF qws.socket = NoSocket
       THEN [qws EXCEPT
               !.lastOp = [op |-> "disconnect", n |-> qws.lastOp.n + 1,
                           error |-> "Socket undefined. This must be called after connecting.",
                           data |-> ""]]
       ELSE [qws EXCEPT
               !.sockets[qws.socket].readyState =
                  IF @ \in {"CONNECTING", "OPEN"} THEN "CLOSING" ELSE @,
               !.lastOp = [op |-> "disconnect", n |-> qws.lastOp.n + 1, error |-> "",
                           data |-> ""]]
  /\ UNCHANGED notQws

\* sendNow that leaves the readyState check to the socket
SendNowUnchecked(data) ==
  /\ qws.made
  /\ qws.lastOp.n < MaxCalls
  /\ qws' =
       IF qws.socket = NoSocket
       THEN [qws EXCEPT
               !.lastOp = [op |-> "sendNow", n |-> qws.lastOp.n + 1,
                           error |-> "Socket undefined. This must be called after connecting.",
                           data |-> data]]
       ELSE IF qws.closed
       THEN [qws EXCEPT
               !.lastOp = [op |-> "sendNow", n |-> qws.lastOp.n + 1,
                           error |-> "Socket was closed, so no data can be sent anymore.",
                           data |-> data]]
       ELSE [qws EXCEPT
               !.sent = Append(@, [socket |-> qws.socket, data |-> data]),
               !.lastOp = [op |-> "sendNow", n |-> qws.lastOp.n + 1, error |-> "",
                           data |-> data]]
  /\ UNCHANGED notQws

\* sendNow(data): the three checks in the order of the source, then this.socket.send(data)
SendNow(data) ==
  /\ qws.made
  /\ qws.lastOp.n < MaxCalls
  /\ qws' =
       IF qws.socket = NoSocket
       THEN [qws EXCEPT
               !.lastOp = [op |-> "sendNow", n |-> qws.lastOp.n + 1,
                           error |-> "Socket undefined. This must be called after connecting.",
                           data |-> data]]
       ELSE IF qws.closed
       THEN [qws EXCEPT
               !.lastOp = [op |-> "sendNow", n |-> qws.lastOp.n + 1,
                           error |-> "Socket was closed, so no data can be sent anymore.",
                           data |-> data]]
       ELSE IF qws.sockets[qws.socket].readyState # "OPEN"
       THEN [qws EXCEPT
               !.lastOp = [op |-> "sendNow", n |-> qws.lastOp.n + 1,
                           error |-> "Websocket is not open", data |-> data]]
       ELSE [qws EXCEPT
               !.sent = Append(@, [socket |-> qws.socket, data |-> data]),
               !.lastOp = [op |-> "sendNow", n |-> qws.lastOp.n + 1, error |-> "",
                           data |-> data]]
  /\ UNCHANGED notQws

\* onopen that calls openHandler before it resolves connected
OnOpenHandlerFirst(k) ==
  /\ k \in 1..Len(qws.sockets)
  /\ qws.sockets[k].readyState = "CONNECTING"
  /\ qws' = [qws EXCEPT
       !.sockets[k].readyState = "OPEN",
       !.sockets[k].opened = TRUE,
       !.openHandlerSaw = IF qws.openHandler THEN Append(@, qws.connected) ELSE @,
       !.connected = "resolved"]
  /\ UNCHANGED notQws

\* the open event of socket k: onopen calls connectedResolver, then openHandler if
\* there is one; openHandlerSaw keeps the state of connected that each call found
OnOpen(k) ==
  /\ k \in 1..Len(qws.sockets)
  /\ qws.sockets[k].readyState = "CONNECTING"
  /\ qws' = [qws EXCEPT
       !.sockets[k].readyState = "OPEN",
       !.sockets[k].opened = TRUE,
       !.connected = "resolved",
       !.openHandlerSaw = IF qws.openHandler THEN Append(@, "resolved") ELSE @]
  /\ UNCHANGED notQws

\* the close event of socket k: onclose sets closed, then calls closeHandler if there
\* is one
OnClose(k) ==
  /\ k \in 1..Len(qws.sockets)
  /\ ~qws.sockets[k].closeFired
  /\ qws' = [qws EXCEPT
       !.sockets[k].readyState = "CLOSED",
       !.sockets[k].closeFired = TRUE,
       !.closed = TRUE,
       !.closeHandlerCalls = IF qws.closeHandler THEN @ + 1 ELSE @]
  /\ UNCHANGED notQws

\* the error event of socket k: onerror is the errorHandler itself; the failed
\* socket is CLOSING or CLOSED by then
OnError(k, readyState) ==
  /\ k \in 1..Len(qws.sockets)
  /\ ~qws.sockets[k].closeFired
  /\ ~qws.sockets[k].errorFired
  /\ readyState \in {"CLOSING", "CLOSED"}
  /\ qws' = [qws EXCEPT
       !.sockets[k].readyState = readyState,
       !.sockets[k].errorFired = TRUE,
       !.errorHandlerCalls = @ + 1]
  /\ UNCHANGED notQws

\* a message event of socket k: onmessage hands {type, data} to messageHandler
OnMessage(k) ==
  /\ k \in 1..Len(qws.sockets)
  /\ qws.sockets[k].readyState = "OPEN"
  /\ qws.messageHandlerCalls < MaxMessages
  /\ qws' = [qws EXCEPT !.messageHandlerCalls = @ + 1]
  /\ UNCHANGED notQws

QwsNext ==
  \/ \E openHandler, closeHandler \in BOOLEAN : NewQueueingWebSocket(openHandler, closeHandler)
  \/ Connect
  \/ Disconnect
  \/ \E data \in SendData : SendNow(data)
  \/ \E k \in 1..MaxCalls : OnOpen(k)
  \/ \E k \in 1..MaxCalls : OnClose(k)
  \/ \E k \in 1..MaxCalls : \E readyState \in {"CLOSING", "CLOSED"} : OnError(k, readyState)
  \/ \E k \in 1..MaxCalls : OnMessage(k)

----------------------------------------------------------------------------
(* Claims about QueueingWebSocket                                          *)

\* the step is a call of the public method op
IsCallOf(op) == qws'.lastOp.n = qws.lastOp.n + 1 /\ qws'.lastOp.op = op

\* a close event of some socket created by connect() has been received
CloseReceived(f) == \E k \in 1..Len(f.sockets) : f.sockets[k].closeFired

\* connect() was called, no close event was received, and the socket of the last
\* connect() is OPEN
CanSend(f) ==
  /\ Len(f.sockets) > 0
  /\ ~CloseReceived(f)
  /\ f.sockets[Len(f.sockets)].readyState = "OPEN"

\* C27: sendNow passes data to the socket only if connect() was called before, no
\* close event has been received and the socket's readyState is OPEN; in every other
\* state it fails with an error and sends nothing, and nothing is queued: data reaches
\* a socket in a step of sendNow only, and it is the data of that call.
C27_SendNowOnlyWhenOpen ==
  [][/\ qws'.sent # qws.sent => IsCallOf("sendNow")
     /\ IsCallOf("sendNow") =>
          IF CanSend(qws)
          THEN /\ qws'.lastOp.error = ""
               /\ qws'.sent = Append(qws.sent, [socket |-> Len(qws.sockets),
                                                data |-> qws'.lastOp.data])
          ELSE /\ qws'.lastOp.error # ""
               /\ qws'.sent = qws.sent]_vars

\* "a" was sent on the open socket, and a later sendNow("b") has failed
C27_Witness ==
  /\ qws.sent = <<[socket |-> 1, data |-> "a"]>>
  /\ qws.lastOp.op = "sendNow"
  /\ qws.lastOp.data = "b"
  /\ qws.lastOp.error # ""

\* C28: the closed flag is permanent: once a close event of any socket created by
\* connect() has been received, every later sendNow fails with "Socket was closed, so
\* no data can be sent anymore.", also after connect() is called again and a new
\* socket opens.
C28_ClosedIsPermanent ==
  /\ [](CloseReceived(qws) => qws.closed)
  /\ [][/\ qws.closed => qws'.closed
        /\ (CloseReceived(qws) /\ IsCallOf("sendNow")) =>
             /\ qws'.lastOp.error = "Socket was closed, so no data can be sent anymore."
             /\ qws'.sent = qws.sent]_vars

\* the first socket has closed, the socket of a second connect() is open, and a
\* sendNow after that has failed with the message
C28_Witness ==
  /\ Len(qws.sockets) = 2
  /\ qws.sockets[1].closeFired
  /\ qws.sockets[2].readyState = "OPEN"
  /\ ~qws.sockets[2].closeFired
  /\ qws.socket = 2
  /\ qws.lastOp.op = "sendNow"
  /\ qws.lastOp.error = "Socket was closed, so no data can be sent anymore."

\* the sockets that have had their open event
Opened(f) == {k \in 1..Len(f.sockets) : f.sockets[k].opened}

\* C29: connected is resolved only by a socket open event, and it is resolved before
\* openHandler is invoked; it is never rejected, so while sockets error or close
\* without one ever opening, connected stays pending.
C29_ConnectedResolvedByOpen ==
  qws.made =>
    /\ qws.connected \in {"pending", "resolved"}
    /\ qws.connected = "resolved" <=> Opened(qws) # {}
    /\ \A j \in 1..Len(qws.openHandlerSaw) : qws.openHandlerSaw[j] = "resolved"
    /\ Len(qws.openHandlerSaw) = IF qws.openHandler THEN Cardinality(Opened(qws)) ELSE 0

\* a first socket has had its error and its close event without opening, and the
\* socket of a second connect() has opened and openHandler has been called
C29_Witness ==
  /\ Len(qws.sockets) = 2
  /\ ~qws.sockets[1].opened
  /\ qws.sockets[1].errorFired
  /\ qws.sockets[1].closeFired
  /\ qws.sockets[2].opened
  /\ qws.openHandlerSaw = <<"resolved">>
  /\ qws.connected = "resolved"

\* C30: disconnect and sendNow called before any connect() fail with "Socket
\* undefined. This must be called after connecting." and leave the state of the
\* object unchanged: no socket is created, closed remains false, connected pending.
C30_UndefinedSocket ==
  [][((IsCallOf("disconnect") \/ IsCallOf("sendNow")) /\ Len(qws.sockets) = 0) =>
       /\ qws'.lastOp.error = "Socket undefined. This must be called after connecting."
       /\ qws' = [qws EXCEPT !.lastOp = qws'.lastOp]
       /\ qws'.sockets = <<>>
       /\ qws'.socket = NoSocket
       /\ ~qws'.closed
       /\ qws'.connected = "pending"
       /\ qws'.sent = <<>>]_vars

\* two calls have been made on an object that was never connected, the last one a
\* disconnect
C30_Witness ==
  /\ qws.made
  /\ qws.sockets = <<>>
  /\ qws.lastOp.n = 2
  /\ qws.lastOp.op = "disconnect"
  /\ qws.lastOp.error = "Socket undefined. This must be called after connecting."

----------------------------------------------------------------------------
(* Specifications: each engine on its own, the other one idle              *)

\* no call has been made
Init ==
  /\ kpInput = <<>>
  /\ kpResult = NoKeypair
  /\ sigInput = NoSigInput
  /\ signature = <<>>
  /\ signature2 = <<>>
  /\ drbgUsed = 0
  /\ vfyInput = NoVfyInput
  /\ vfyResult = NoVfyResult
  /\ calls = [c \in Calls |-> IdleCall]
  /\ uint = NoUint
  /\ wrap = NoWrap
  /\ qws = NoQueueingWebSocket

SpecSecp256k1 == Init /\ [][SecpNext]_vars

SpecSlip0010 == Init /\ [][SlipNext]_vars

SpecSlipPair == Init /\ [][SlipPairNext]_vars

\* a call that has started runs on: the caller's thread executes derivePath without
\* interruption until it returns or throws
SpecSlipFair == Init /\ [][SlipNext]_vars /\ WF_vars(SlipNext)

SpecUint32 == Init /\ [][UintNext]_vars

SpecSecureWrap == Init /\ [][WrapNext]_vars

SpecQueueingWebSocket == Init /\ [][QwsNext]_vars

====
